---- MODULE Spec2Model ----
(***************************************************************************)
(* Performance layer and copilot pipeline of Perplexica:                   *)
(*   RequestDeduplicator  (src/lib/performance/requestDeduplicator.ts)     *)
(*   ParallelProcessor    (src/lib/performance/parallelProcessor.ts)       *)
(*   SearchCache          (src/lib/performance/smartTimeout.ts, 302-485)   *)
(*   CopilotSearchAgent   (src/lib/search/copilotSearchAgent.ts)           *)
(* Each component has its own next-state relation and specification; the   *)
(* variables of the other components stay unchanged under it.              *)
(***************************************************************************)
EXTENDS Integers, Sequences, FiniteSets, TLC

(***************************************************************************)
(* Bounds of the model.                                                    *)
(***************************************************************************)
MaxCallers == 3
MaxTime == 3
MaxCalls == 2
MaxTasks == 2
MaxJobs == 2
MaxCacheTime == 2
MaxTTL == 1
MaxHits == 1
MaxMaxSize == 2
MaxEvents == 2
MaxRetryAttempts == 3
MaxLimit == 2
MaxLines == 5
MaxDocs == 2
MaxRerankDocs == 3
MaxSimilarity == 2
MaxRecords == 20
MaxOtherRecords == 1
MaxRun == 19
MaxTimeoutCalls == 3
MaxSweepTime == 4
MaxPriority == 2
MaxBatchTasks == 3
MaxBatchSize == 2
MaxLimitTasks == 3

(***************************************************************************)
(* Configuration values (scaled to the clock of the model).                *)
(***************************************************************************)
maxPendingTime == 2
cleanupInterval == 1
maxConcurrency == 1
retryDelay == 1

VARIABLES
  \* ---- RequestDeduplicator -------------------------------------------
  enabled,          \* config.enabled
  pendingRequests,  \* Map<string, PendingRequest>: key -> registration or NoReq
  dNow,             \* Date.now() as seen by the deduplicator
  opKey,            \* per invocation of a requestFn: the key it was started for
  opState,          \* per invocation of a requestFn: none/pending/resolved/rejected
  opFinally,        \* whether the starting call's finally block has run
  callerOp,         \* per deduplicate call: the invocation whose promise it holds
  callerJoined,     \* per deduplicate call: "no", or the state the shared operation
                    \* was in ("inflight"/"settled") when the call took lines 59-60
  callerResult,     \* per deduplicate call: what the call has observed so far
  \* ---- ParallelProcessor ---------------------------------------------
  activeJobs,       \* Map<string, Promise>: task id -> job (0 when absent)
  jobs,             \* the promises made by runTaskWithRetry, in creation order
  calls,            \* the calls of execute / executeWithResults
  retryAttempts,    \* config.retryAttempts
  semaphore,        \* the Semaphore of the executeWithLimit call: permits, waiting
  limitCall,        \* the call of executeWithLimit: its tasks and where each one is
  \* ---- SearchCache ---------------------------------------------------
  maxSize,          \* config.maxSize
  cache,            \* Map<string, CacheEntry>: key -> entry or NoEntry
  accessOrder,      \* Set<string> in insertion order, oldest first
  cNow,             \* Date.now() as seen by the cache
  cacheHung,        \* TRUE when set is inside a loop that cannot end
  recency,          \* history: keys in the order of their last access by get or set
  cacheLast,        \* history: the last completed operation and what it returned
  \* ---- CopilotSearchAgent: searchAndAnswer / handleStream ----------------
  runReq,           \* per run: its (message, optimizationMode), as its cache key
  runPc,            \* per run: idle/cached/streaming/ended/failed/rejected
  events,           \* per run: the events emitted on its emitter, in order
  fullResponse,     \* per run: handleStream's fullResponse (the chunks, concatenated)
  cachedResult,     \* per run: the cachedResult of line 99
  \* ---- CopilotSearchAgent: the retrieval stage ---------------------------
  runStage,         \* per run: idle/retrieval/retrieved
  subQueries,       \* per run: the sub-queries handed to searchMultipleQueries
  searchDocs,       \* per run: the documents searchMultipleQueries returned
  \* ---- CopilotSearchAgent: extractPageContent (one call) ----------------
  extPc,            \* idle/extracting/done
  extConfig,        \* config.enablePageExtraction of the agent
  extIn,            \* the documents handed to extractPageContent
  extOut,           \* the documents extractPageContent returned
  \* ---- CopilotSearchAgent: rerankAndDeduplicate (one call) --------------
  rr,               \* its documents, the similarities, what was embedded, its result
  \* ---- ParallelProcessor.executeBatched ----------------------------------
  batch,            \* the call: its tasks in priority order, the group size, the group running
  \* ---- SmartTimeout ---------------------------------------------------------
  historySize,      \* config.historySize
  metrics,          \* Map<string, RequestMetrics[]>: request type -> its records
  currentTimeouts,  \* Map<string, number>: request type -> cached timeout, 0 if none
  appended,         \* request type -> number of records appended so far (history)
  lastRecord,       \* what the last recordMetrics did (history)
  tcall,            \* the call of executeWithTimeout in progress
  prog,             \* the call of executeWithProgressiveTimeout in progress
  probe,            \* a history and what calculateAdaptiveTimeout returns for it
  \* ---- CopilotSearchAgent: the context step of createCopilotChain --------
  pipe,             \* one run: the stage it is in, its data, the stages entered
  \* ---- CopilotSearchAgent: generateMultipleQueries ----------------------
  gen               \* the call: its mode, the model's response, its result

dedupVars == <<enabled, pendingRequests, dNow, opKey, opState, opFinally,
               callerOp, callerJoined, callerResult>>

execVars == <<activeJobs, jobs, calls>>
\* set by the constructor and never assigned again
execConfig == <<retryAttempts>>
limitVars == <<semaphore, limitCall>>

cacheVars == <<maxSize, cache, accessOrder, cNow, cacheHung, recency, cacheLast>>

streamVars == <<runReq, runPc, events, fullResponse, cachedResult>>
stageVars == <<runStage, subQueries, searchDocs>>
genVars == <<gen>>
extractVars == <<extPc, extConfig, extIn, extOut>>
rerankVars == <<rr>>
pipeVars == <<pipe>>
batchVars == <<batch>>
timeoutVarsButProg ==
  <<historySize, metrics, currentTimeouts, appended, lastRecord, tcall, probe>>
timeoutVars ==
  <<historySize, metrics, currentTimeouts, appended, lastRecord, tcall, prog,
    probe>>

vars ==
  <<dedupVars, execVars, execConfig, limitVars, cacheVars, streamVars,
    stageVars, genVars, extractVars, rerankVars, pipeVars, timeoutVars,
    batchVars>>

\* what each component leaves alone
nonTimeoutVars ==
  <<dedupVars, execVars, execConfig, limitVars, cacheVars, streamVars,
    stageVars, genVars, extractVars, rerankVars, pipeVars, batchVars>>
nonPipeExecVars ==
  <<dedupVars, execConfig, limitVars, cacheVars, streamVars, stageVars,
    genVars, extractVars, rerankVars, timeoutVars, batchVars>>
nonBatchExecVars ==
  <<dedupVars, execConfig, limitVars, cacheVars, streamVars, stageVars,
    genVars, extractVars, rerankVars, timeoutVars, pipeVars>>
nonRerankVars ==
  <<dedupVars, execVars, execConfig, limitVars, cacheVars, streamVars,
    stageVars, genVars, extractVars, pipeVars, timeoutVars, batchVars>>
nonExtractExecVars ==
  <<dedupVars, execConfig, limitVars, cacheVars, streamVars, stageVars,
    genVars, rerankVars, pipeVars, timeoutVars, batchVars>>
nonGenVars ==
  <<dedupVars, execVars, execConfig, limitVars, cacheVars, streamVars,
    stageVars, extractVars, rerankVars, pipeVars, timeoutVars, batchVars>>
nonDedupVars ==
  <<execVars, execConfig, limitVars, cacheVars, streamVars, stageVars,
    genVars, extractVars, rerankVars, pipeVars, timeoutVars, batchVars>>
nonExecVars ==
  <<dedupVars, execConfig, limitVars, cacheVars, streamVars, stageVars,
    genVars, extractVars, rerankVars, pipeVars, timeoutVars, batchVars>>
nonCacheVars ==
  <<dedupVars, execVars, execConfig, limitVars, streamVars, stageVars,
    genVars, extractVars, rerankVars, pipeVars, timeoutVars, batchVars>>
nonStreamCacheVars ==
  <<dedupVars, execVars, execConfig, limitVars, stageVars, genVars,
    extractVars, rerankVars, pipeVars, timeoutVars, batchVars>>
nonStageExecVars ==
  <<dedupVars, execConfig, limitVars, cacheVars, streamVars, genVars,
    extractVars, rerankVars, pipeVars, timeoutVars, batchVars>>
nonLimitExecVars ==
  <<dedupVars, execConfig, cacheVars, streamVars, stageVars, genVars,
    extractVars, rerankVars, pipeVars, timeoutVars, batchVars>>

(***************************************************************************)
(* RequestDeduplicator                                                     *)
(***************************************************************************)
Keys == {"k1", "k2"}
Callers == 1..MaxCallers
NoKey == "none"
NoReq == [promise |-> 0, timestamp |-> 0, requestCount |-> 0]
NoResult == [kind |-> "none", from |-> 0]

\* An operation is in flight when its requestFn was invoked and has not settled.
InFlight(o) == opState[o] = "pending"

\* line 58: the age test that lets a call share the registered promise
IsFresh(reg, now) == now - reg.timestamp < maxPendingTime

\* line 130: the age test of the background sweep
IsExpiredPendingAtAge(reg, now) == now - reg.timestamp >= maxPendingTime
IsExpiredPending(reg, now) == now - reg.timestamp > maxPendingTime

\* line 59: existing.requestCount++
CountAfterJoin(n) == n + 1

\* lines 66-73: invoke requestFn and register its promise under key
StartOperation(c, k) ==
  /\ opKey' = [opKey EXCEPT ![c] = k]
  /\ opState' = [opState EXCEPT ![c] = "pending"]
  /\ callerOp' = [callerOp EXCEPT ![c] = c]
  /\ pendingRequests' = [pendingRequests EXCEPT
        ![k] = [promise |-> c, timestamp |-> dNow, requestCount |-> 1]]
  /\ UNCHANGED <<callerJoined, opFinally, callerResult>>

\* lines 57-60: return the promise of the existing registration
JoinExistingBroken(c, k) == StartOperation(c, k)
JoinExisting(c, k) ==
  /\ pendingRequests' = [pendingRequests EXCEPT
        ![k].requestCount = CountAfterJoin(pendingRequests[k].requestCount)]
  /\ callerOp' = [callerOp EXCEPT ![c] = pendingRequests[k].promise]
  /\ callerJoined' = [callerJoined EXCEPT ![c] =
        IF InFlight(pendingRequests[k].promise) THEN "inflight" ELSE "settled"]
  /\ UNCHANGED <<opKey, opState, opFinally, callerResult>>

\* lines 51-53: deduplication disabled, requestFn is invoked for every call
DeduplicateDisabled(c, k) ==
  /\ ~enabled
  /\ opKey' = [opKey EXCEPT ![c] = k]
  /\ opState' = [opState EXCEPT ![c] = "pending"]
  /\ callerOp' = [callerOp EXCEPT ![c] = c]
  /\ UNCHANGED <<pendingRequests, callerJoined, opFinally, callerResult>>

\* lines 47-81, up to the first await: what the call does to the deduplicator
DeduplicateEffect(c, k) ==
  /\ callerOp[c] = 0
  /\ \/ DeduplicateDisabled(c, k)
     \/ /\ enabled
        /\ pendingRequests[k] # NoReq
        /\ IsFresh(pendingRequests[k], dNow)
        /\ JoinExisting(c, k)
     \/ /\ enabled
        /\ (pendingRequests[k] = NoReq \/ ~IsFresh(pendingRequests[k], dNow))
        /\ StartOperation(c, k)
  /\ UNCHANGED <<enabled, dNow>>

Deduplicate(c, k) ==
  /\ DeduplicateEffect(c, k)
  /\ UNCHANGED nonDedupVars

\* the promise returned by requestFn settles (resolve or reject)
SettleEffect(o, kind) ==
  /\ opState[o] = "pending"
  /\ opState' = [opState EXCEPT ![o] = kind]
  /\ UNCHANGED <<enabled, pendingRequests, dNow, opKey, opFinally,
                 callerOp, callerJoined, callerResult>>

SettleOp(o, kind) ==
  /\ SettleEffect(o, kind)
  /\ UNCHANGED nonDedupVars

\* line 79: what the finally block does to the table
TableAfterFinallyKeeps(o) == pendingRequests
TableAfterFinally(o) == [pendingRequests EXCEPT ![opKey[o]] = NoReq]

\* lines 75-80: the starting call resumes after its await: it returns the result
\* (or rethrows) and its finally block deletes the key
StarterFinally(o) ==
  /\ enabled
  /\ opState[o] \in {"resolved", "rejected"}
  /\ ~opFinally[o]
  /\ opFinally' = [opFinally EXCEPT ![o] = TRUE]
  /\ pendingRequests' = TableAfterFinally(o)
  /\ callerResult' = [callerResult EXCEPT ![o] = [kind |-> opState[o], from |-> o]]
  /\ UNCHANGED <<enabled, dNow, opKey, opState, callerOp, callerJoined>>
  /\ UNCHANGED nonDedupVars

\* a call that was handed a promise (line 52 or line 60) observes its settlement
ObservedOutcome(c) == [kind |-> opState[callerOp[c]], from |-> callerOp[c]]

CallerReceive(c) ==
  /\ callerOp[c] # 0
  /\ (callerJoined[c] # "no" \/ ~enabled)
  /\ callerResult[c] = NoResult
  /\ opState[callerOp[c]] \in {"resolved", "rejected"}
  /\ callerResult' = [callerResult EXCEPT ![c] = ObservedOutcome(c)]
  /\ UNCHANGED <<enabled, pendingRequests, dNow, opKey, opState, opFinally,
                 callerOp, callerJoined>>
  /\ UNCHANGED nonDedupVars

\* lines 125-138: the background sweep
SweptTable(now) ==
  [k \in Keys |->
     IF pendingRequests[k] # NoReq /\ IsExpiredPending(pendingRequests[k], now)
       THEN NoReq ELSE pendingRequests[k]]

DedupCleanup ==
  /\ enabled
  /\ pendingRequests' = SweptTable(dNow)
  /\ UNCHANGED <<enabled, dNow, opKey, opState, opFinally,
                 callerOp, callerJoined, callerResult>>
  /\ UNCHANGED nonDedupVars

\* lines 152-154
DedupClear ==
  /\ pendingRequests' = [k \in Keys |-> NoReq]
  /\ UNCHANGED <<enabled, dNow, opKey, opState, opFinally,
                 callerOp, callerJoined, callerResult>>
  /\ UNCHANGED nonDedupVars

\* Date.now() advances
DedupTick ==
  /\ dNow < MaxTime
  /\ dNow' = dNow + 1
  /\ UNCHANGED <<enabled, pendingRequests, opKey, opState, opFinally,
                 callerOp, callerJoined, callerResult>>
  /\ UNCHANGED nonDedupVars

\* lines 20-30: state after construction
DedupInit ==
  /\ enabled \in BOOLEAN
  /\ pendingRequests = [k \in Keys |-> NoReq]
  /\ dNow = 0
  /\ opKey = [c \in Callers |-> NoKey]
  /\ opState = [c \in Callers |-> "none"]
  /\ opFinally = [c \in Callers |-> FALSE]
  /\ callerOp = [c \in Callers |-> 0]
  /\ callerJoined = [c \in Callers |-> "no"]
  /\ callerResult = [c \in Callers |-> NoResult]

\* lines 119-123: the timer of startCleanup fires every cleanupInterval
SweepDue == enabled /\ dNow > 0 /\ dNow % cleanupInterval = 0

TimedCleanup ==
  /\ SweepDue
  /\ DedupCleanup

\* Date.now() advances, once the sweep that is due at this time has run (a
\* sweep changes nothing when no registration is too old)
SweepTick ==
  /\ dNow < MaxSweepTime
  /\ SweepDue => pendingRequests = SweptTable(dNow)
  /\ dNow' = dNow + 1
  /\ UNCHANGED <<enabled, pendingRequests, opKey, opState, opFinally,
                 callerOp, callerJoined, callerResult>>
  /\ UNCHANGED nonDedupVars

\* the deduplicator with its sweep on the timer
SweepNext ==
  \/ \E c \in Callers, k \in Keys : Deduplicate(c, k)
  \/ \E o \in Callers, kind \in {"resolved", "rejected"} : SettleOp(o, kind)
  \/ \E o \in Callers : StarterFinally(o)
  \/ \E c \in Callers : CallerReceive(c)
  \/ TimedCleanup
  \/ SweepTick

\* copilotSearchAgent.ts lines 144-153: generateMultipleQueries hands its
\* language-model call to the deduplicator. Call c belongs to a run with the
\* query RunQuery(c) and the chat history RunHistory(c); the operation a call
\* starts invokes the chain with the query and the history of that call
RunQuery(c) == IF c % 3 = 0 THEN "q2" ELSE "q1"
RunHistory(c) == IF c % 2 = 0 THEN "h2" ELSE "h1"
\* line 147: `queries-${query}`
QueriesKey(query, history) == IF query = "q1" THEN "k1" ELSE "k2"

GenerateQueriesCall(c) ==
  Deduplicate(c, QueriesKey(RunQuery(c), RunHistory(c)))

QueryDedupNext ==
  \/ \E c \in Callers : GenerateQueriesCall(c)
  \/ \E o \in Callers, kind \in {"resolved", "rejected"} : SettleOp(o, kind)
  \/ \E o \in Callers : StarterFinally(o)
  \/ \E c \in Callers : CallerReceive(c)
  \/ DedupCleanup
  \/ DedupTick

DedupNext ==
  \/ \E c \in Callers, k \in Keys : Deduplicate(c, k)
  \/ \E o \in Callers, kind \in {"resolved", "rejected"} : SettleOp(o, kind)
  \/ \E o \in Callers : StarterFinally(o)
  \/ \E c \in Callers : CallerReceive(c)
  \/ DedupCleanup
  \/ DedupClear
  \/ DedupTick

(***************************************************************************)
(* ParallelProcessor                                                       *)
(***************************************************************************)
\* the ids are opaque strings; the model uses the ones the pipeline generates
\* (copilotSearchAgent.ts line 171)
TaskIds == {"search-0", "search-1"}
\* copilotSearchAgent.ts line 235
ExtractTaskIds == {"extract-0", "extract-1"}
AllTaskIds == TaskIds \cup ExtractTaskIds
CallIds == 1..MaxCalls
IdleCall == [mode |-> "idle", tasks |-> <<>>, slots |-> <<>>,
             status |-> "idle", records |-> <<>>]

\* ParallelTask lists handed to a call: task i of call c has id ids[i] and its
\* own unit of work, named <<c, i>>
TaskLists == UNION {[1..n -> TaskIds] : n \in 0..MaxTasks}
TasksOf(c, ids) == [i \in 1..Len(ids) |-> [id |-> ids[i], work |-> <<c, i>>]]

JobIds == 1..Len(jobs)
JobSettled(j) == jobs[j].phase \in {"resolved", "rejected"}
JobRunning(j) == jobs[j].phase \in {"running", "backoff"}

\* lines 79-84 and 97-101: runTaskWithRetry starts attempt 1 and invokes task.task()
NewJob(t) == [id |-> t.id, work |-> t.work, attempt |-> 1, phase |-> "running",
              units |-> {1}, error |-> "none", wait |-> 0, waited |-> 0]

\* lines 62-69: executeTask for one task, given the jobs and the activeJobs map
\* as they are when it is called; yields <<jobs, activeJobs, job awaited>>
ExecuteTask(js, act, t) ==
  IF act[t.id] # 0
    THEN <<js, act, act[t.id]>>
    ELSE <<Append(js, NewJob(t)), [act EXCEPT ![t.id] = Len(js) + 1], Len(js) + 1>>

\* lines 31 and 41-57: tasks.map(...) calls executeTask for every task, in order,
\* before anything is awaited; yields <<jobs, activeJobs, slots>>
RECURSIVE StartAll(_, _, _, _, _)
StartAll(ts, i, js, act, slots) ==
  IF i > Len(ts) THEN <<js, act, slots>>
  ELSE LET r == ExecuteTask(js, act, ts[i])
       IN StartAll(ts, i + 1, r[1], r[2], Append(slots, r[3]))

\* tasks of the executeWithLimit call that have not reached executeTask yet
\* (they count towards the bound on the number of jobs)
NotYetStarted ==
  Cardinality({i \in 1..Len(limitCall.pc) : limitCall.pc[i] \in {"acquired", "waiting"}})

\* lines 30-33 and 35-60, up to the first await: what the call does to the
\* executor
ExecuteEffect(c, mode, ts) ==
  /\ calls[c].mode = "idle"
  /\ LET r == StartAll(ts, 1, jobs, activeJobs, <<>>) IN
       /\ Len(r[1]) + NotYetStarted <= MaxJobs
       /\ jobs' = r[1]
       /\ activeJobs' = r[2]
       /\ calls' = [calls EXCEPT ![c] = [mode |-> mode, tasks |-> ts,
                        slots |-> r[3], status |-> "pending", records |-> <<>>]]

Execute(c, mode, ids) ==
  /\ ExecuteEffect(c, mode, TasksOf(c, ids))
  /\ UNCHANGED nonExecVars

\* lines 83-84 and 71-76: the unit of work of the current attempt resolves
\* first; the job's promise resolves and the finally block of the executeTask
\* call that created it deletes the task id from activeJobs
UnitResolve(j) ==
  /\ jobs[j].phase = "running"
  /\ jobs[j].attempt \in jobs[j].units
  /\ jobs' = [jobs EXCEPT ![j].phase = "resolved",
                          ![j].units = @ \ {jobs[j].attempt}]
  /\ activeJobs' = [activeJobs EXCEPT ![jobs[j].id] = 0]
  /\ UNCHANGED calls
  /\ UNCHANGED nonExecVars

\* line 89: the delay before the attempt after attempt k, in units of time
BackoffDelayConstant(k) == retryDelay
BackoffDelay(k) == retryDelay * k

\* lines 85-94 and 74-76: the current attempt failed with err: back off, or
\* give up after the last attempt (the finally block deletes the task id)
AfterFailedAttempt(j, err, units) ==
  IF jobs[j].attempt < retryAttempts
    THEN /\ jobs' = [jobs EXCEPT ![j].phase = "backoff", ![j].error = err,
                                 ![j].units = units,
                                 ![j].wait = BackoffDelay(jobs[j].attempt),
                                 ![j].waited = 0]
         /\ UNCHANGED activeJobs
    ELSE /\ jobs' = [jobs EXCEPT ![j].phase = "rejected", ![j].error = err,
                                 ![j].units = units]
         /\ activeJobs' = [activeJobs EXCEPT ![jobs[j].id] = 0]

\* the unit of work of the current attempt rejects first
UnitReject(j) ==
  /\ jobs[j].phase = "running"
  /\ jobs[j].attempt \in jobs[j].units
  /\ AfterFailedAttempt(j, "error", jobs[j].units \ {jobs[j].attempt})
  /\ UNCHANGED calls
  /\ UNCHANGED nonExecVars

\* lines 102-106: the timer of the current attempt fires first; the unit of work
\* is not cancelled and keeps running
AttemptTimeout(j) ==
  /\ jobs[j].phase = "running"
  /\ AfterFailedAttempt(j, "timeout", jobs[j].units)
  /\ UNCHANGED calls
  /\ UNCHANGED nonExecVars

\* a unit of work that lost its race settles later: nobody listens
StaleUnitSettles(j, n) ==
  /\ n \in jobs[j].units
  /\ (jobs[j].phase # "running" \/ jobs[j].attempt # n)
  /\ jobs' = [jobs EXCEPT ![j].units = @ \ {n}]
  /\ UNCHANGED <<activeJobs, calls>>
  /\ UNCHANGED nonExecVars

\* lines 147-149: one unit of time of the backoff delay passes
BackoffTick(j) ==
  /\ jobs[j].phase = "backoff"
  /\ jobs[j].wait > 0
  /\ jobs' = [jobs EXCEPT ![j].wait = @ - 1, ![j].waited = @ + 1]
  /\ UNCHANGED <<activeJobs, calls>>
  /\ UNCHANGED nonExecVars

\* lines 88-90 and 82-84: the backoff delay has ended and the next attempt invokes
\* task.task() again (lastError is overwritten before it is read again, line 86)
BackoffDone(j) ==
  /\ jobs[j].phase = "backoff"
  /\ jobs[j].wait = 0
  /\ jobs' = [jobs EXCEPT ![j].phase = "running", ![j].attempt = @ + 1,
                          ![j].error = "none",
                          ![j].units = @ \cup {jobs[j].attempt + 1}]
  /\ UNCHANGED <<activeJobs, calls>>
  /\ UNCHANGED nonExecVars

\* lines 45-55: the record the map callback builds for the task in slot i
RecordOf(c, i) ==
  LET j == calls[c].slots[i] IN
    [id |-> calls[c].tasks[i].id,
     ok |-> jobs[j].phase = "resolved",
     from |-> jobs[j].work,
     error |-> IF jobs[j].phase = "resolved" THEN "none" ELSE jobs[j].error]

\* a variant that returns as soon as one slot has settled
ReturnResultsAtFirst(c) ==
  /\ calls[c].mode = "results"
  /\ calls[c].status = "pending"
  /\ \E i \in 1..Len(calls[c].slots) : JobSettled(calls[c].slots[i])
  /\ calls' = [calls EXCEPT ![c].status = "returned",
                 ![c].records = [i \in 1..Len(calls[c].slots) |-> RecordOf(c, i)]]
  /\ UNCHANGED <<activeJobs, jobs>>
  /\ UNCHANGED nonExecVars

\* line 59: Promise.all over the records resolves once every slot has settled
ReturnResults(c) ==
  /\ calls[c].mode = "results"
  /\ calls[c].status = "pending"
  /\ \A i \in 1..Len(calls[c].slots) : JobSettled(calls[c].slots[i])
  /\ calls' = [calls EXCEPT ![c].status = "returned",
                 ![c].records = [i \in 1..Len(calls[c].slots) |-> RecordOf(c, i)]]
  /\ UNCHANGED <<activeJobs, jobs>>
  /\ UNCHANGED nonExecVars

\* line 32: Promise.all resolves with every value, or rejects with the first
\* rejection without waiting for the other tasks
ReturnExecute(c) ==
  /\ calls[c].mode = "execute"
  /\ calls[c].status = "pending"
  /\ \/ /\ \A i \in 1..Len(calls[c].slots) : jobs[calls[c].slots[i]].phase = "resolved"
        /\ calls' = [calls EXCEPT ![c].status = "returned",
                 ![c].records = [i \in 1..Len(calls[c].slots) |-> RecordOf(c, i)]]
     \/ /\ \E i \in 1..Len(calls[c].slots) : jobs[calls[c].slots[i]].phase = "rejected"
        /\ calls' = [calls EXCEPT ![c].status = "raised"]
  /\ UNCHANGED <<activeJobs, jobs>>
  /\ UNCHANGED nonExecVars

\* lines 161-164
ExecClear ==
  /\ activeJobs' = [t \in AllTaskIds |-> 0]
  /\ UNCHANGED <<jobs, calls>>
  /\ UNCHANGED nonExecVars

\* ---- executeWithLimit and its Semaphore (lines 129-146, 167-194) ----------
Limits == 0..MaxLimit
IdleLimitCall == [status |-> "idle", limit |-> 0, tasks |-> <<>>, pc |-> <<>>,
                  slots |-> <<>>]

\* lines 175-184: acquire called for task i; yields <<semaphore, admitted>>
Acquire(sem, i) ==
  IF sem.permits > 0
    THEN <<[sem EXCEPT !.permits = @ - 1], TRUE>>
    ELSE <<[sem EXCEPT !.waiting = Append(@, i)], FALSE>>

\* lines 136-137: tasks.map runs every callback up to its await of acquire();
\* yields <<semaphore, pc>>
RECURSIVE AcquireAll(_, _, _, _)
AcquireAll(n, i, sem, pc) ==
  IF i > n THEN <<sem, pc>>
  ELSE LET r == Acquire(sem, i)
       IN AcquireAll(n, i + 1, r[1],
                     Append(pc, IF r[2] THEN "acquired" ELSE "waiting"))

\* lines 133-137 and 145, up to the first await
ExecuteWithLimit(limit, ids) ==
  /\ limitCall.status = "idle"
  /\ (jobs = <<>> \/ Len(jobs) + Len(ids) <= MaxJobs)
  /\ LET r == AcquireAll(Len(ids), 1, [permits |-> limit, waiting |-> <<>>], <<>>) IN
       /\ semaphore' = r[1]
       /\ limitCall' = [status |-> "pending", limit |-> limit,
                        tasks |-> TasksOf(0, ids), pc |-> r[2],
                        slots |-> [i \in 1..Len(ids) |-> 0]]
  /\ UNCHANGED <<execVars, nonLimitExecVars>>

\* lines 138-139: the callback of task i goes on after acquire() and calls
\* executeTask
LimitStart(i) ==
  /\ limitCall.status \in {"pending", "raised"}
  /\ limitCall.pc[i] = "acquired"
  /\ LET r == ExecuteTask(jobs, activeJobs, limitCall.tasks[i]) IN
       /\ jobs' = r[1]
       /\ activeJobs' = r[2]
       /\ limitCall' = [limitCall EXCEPT !.pc[i] = "running", !.slots[i] = r[3]]
  /\ UNCHANGED <<calls, semaphore, nonLimitExecVars>>

\* a release that admits the waiter that came last
ReleaseAdmitsLast(sem, pc) ==
  IF Len(sem.waiting) > 0
    THEN <<[sem EXCEPT !.waiting = SubSeq(@, 1, Len(@) - 1)],
           [pc EXCEPT ![sem.waiting[Len(sem.waiting)]] = "acquired"]>>
    ELSE <<[sem EXCEPT !.permits = @ + 1], pc>>

\* lines 186-193: release; the first waiter, if any, is admitted
Release(sem, pc) ==
  IF Len(sem.waiting) > 0
    THEN <<[sem EXCEPT !.waiting = Tail(@)],
           [pc EXCEPT ![Head(sem.waiting)] = "acquired"]>>
    ELSE <<[sem EXCEPT !.permits = @ + 1], pc>>

\* lines 139-142: the promise task i awaits has settled; the finally block
\* releases the permit
LimitSettle(i) ==
  /\ limitCall.status \in {"pending", "raised"}
  /\ limitCall.pc[i] = "running"
  /\ JobSettled(limitCall.slots[i])
  /\ LET done == IF jobs[limitCall.slots[i]].phase = "resolved"
                   THEN "done" ELSE "failed"
         r == Release(semaphore, [limitCall.pc EXCEPT ![i] = done]) IN
       /\ semaphore' = r[1]
       /\ limitCall' = [limitCall EXCEPT !.pc = r[2]]
  /\ UNCHANGED <<execVars, nonLimitExecVars>>

\* line 145: Promise.all resolves when every callback has returned, or rejects
\* with the first failure
LimitReturn ==
  /\ limitCall.status = "pending"
  /\ \/ /\ \A i \in 1..Len(limitCall.pc) : limitCall.pc[i] = "done"
        /\ limitCall' = [limitCall EXCEPT !.status = "returned"]
     \/ /\ \E i \in 1..Len(limitCall.pc) : limitCall.pc[i] = "failed"
        /\ limitCall' = [limitCall EXCEPT !.status = "raised"]
  /\ UNCHANGED <<execVars, semaphore, nonLimitExecVars>>

LimitInit ==
  /\ semaphore = [permits |-> 0, waiting |-> <<>>]
  /\ limitCall = IdleLimitCall

\* lines 15-28: state after construction
ExecInit ==
  /\ activeJobs = [t \in AllTaskIds |-> 0]
  /\ jobs = <<>>
  /\ calls = [c \in CallIds |-> IdleCall]
  /\ retryAttempts \in 1..MaxRetryAttempts

ExecNext ==
  \/ \E c \in CallIds, mode \in {"execute", "results"}, ids \in TaskLists :
        Execute(c, mode, ids)
  \/ \E j \in JobIds : UnitResolve(j)
  \/ \E j \in JobIds : UnitReject(j)
  \/ \E j \in JobIds : AttemptTimeout(j)
  \/ \E j \in JobIds, n \in 1..retryAttempts : StaleUnitSettles(j, n)
  \/ \E j \in JobIds : BackoffTick(j)
  \/ \E j \in JobIds : BackoffDone(j)
  \/ \E c \in CallIds : ReturnResults(c)
  \/ \E c \in CallIds : ReturnExecute(c)
  \/ ExecClear

(***************************************************************************)
(* SearchCache                                                             *)
(***************************************************************************)
\* generateKey (lines 330-333) hashes the (query, focusMode, options) tuple; the
\* keys of the model are the distinct tuples
CKeys == {"q1", "q2", "q3"}
\* values are strings, written as sequences of characters
Data == {<<"v1">>, <<"v2">>}
TTLs == 1..MaxTTL
\* null, and the empty string, which the callers treat alike (line 101 of
\* copilotSearchAgent.ts)
Null == <<>>
NoEntry == [data |-> Null, expiresAt |-> 0, hits |-> 0]
NoOp == [op |-> "none", key |-> "none", ret |-> Null, evicted |-> {}]

Present(c) == {k \in CKeys : c[k] # NoEntry}
Size(c) == Cardinality(Present(c))

\* lines 335-337
IsExpiredAtExpiry(entry, now) == now >= entry.expiresAt
IsExpired(entry, now) == now > entry.expiresAt

\* Set.delete / Set.add on the insertion-ordered accessOrder
OrderDelete(ord, k) == SelectSeq(ord, LAMBDA x : x # k)
OrderAdd(ord, k) == IF \E i \in 1..Len(ord) : ord[i] = k THEN ord ELSE Append(ord, k)

\* lines 347-350
UpdateAccessOrderDeleteOnly(ord, k) == OrderDelete(ord, k)
UpdateAccessOrder(ord, k) == OrderAdd(OrderDelete(ord, k), k)

\* lines 339-345: one call of evictLRU on <<cache, accessOrder>>
EvictNewest(c, ord) ==
  IF ord = <<>> THEN <<c, ord>>
  ELSE <<[c EXCEPT ![ord[Len(ord)]] = NoEntry], OrderDelete(ord, ord[Len(ord)])>>
EvictLRU(c, ord) ==
  IF ord = <<>> THEN <<c, ord>>
  ELSE <<[c EXCEPT ![Head(ord)] = NoEntry], OrderDelete(ord, Head(ord))>>

\* lines 367-370: while (cache.size >= maxSize) evictLRU(); yields
\* <<cache, accessOrder, hung>>, hung when the loop can make no progress
NoEviction(c, ord) == <<c, ord, FALSE>>
RECURSIVE EvictLoop(_, _)
EvictLoop(c, ord) ==
  IF Size(c) < maxSize THEN <<c, ord, FALSE>>
  ELSE IF ord = <<>> THEN <<c, ord, TRUE>>
  ELSE LET r == EvictLRU(c, ord) IN EvictLoop(r[1], r[2])

\* the access history kept for the claims: k becomes the most recent key
Touch(h, k) == Append(OrderDelete(h, k), k)

\* lines 352-381: what set does to the cache
SetEffect(k, d, ttl) ==
  /\ ~cacheHung
  /\ LET ord1 == IF cache[k] # NoEntry THEN OrderDelete(accessOrder, k)
                  ELSE accessOrder
         r == EvictLoop(cache, ord1)
     IN IF r[3]
          THEN /\ cacheHung' = TRUE
               /\ cache' = r[1]
               /\ accessOrder' = r[2]
               /\ UNCHANGED <<recency, cacheLast>>
          ELSE /\ cache' = [r[1] EXCEPT ![k] =
                              [data |-> d, expiresAt |-> cNow + ttl, hits |-> 0]]
               /\ accessOrder' = UpdateAccessOrder(r[2], k)
               /\ recency' = Touch(recency, k)
               /\ cacheLast' = [op |-> "set", key |-> k,
                                ret |-> IF cache[k] = NoEntry THEN "inserted"
                                        ELSE "replaced",
                                evicted |-> Present(cache) \ Present(r[1])]
               /\ UNCHANGED cacheHung
  /\ UNCHANGED <<maxSize, cNow>>

CacheSet(k, d, ttl) ==
  /\ SetEffect(k, d, ttl)
  /\ UNCHANGED nonCacheVars

\* lines 383-402: what get does to the cache; cacheLast'.ret is what it returns
GetEffect(k) ==
  /\ ~cacheHung
  /\ \/ /\ cache[k] = NoEntry
        /\ cacheLast' = [op |-> "get", key |-> k, ret |-> Null, evicted |-> {}]
        /\ UNCHANGED <<cache, accessOrder, recency>>
     \/ /\ cache[k] # NoEntry
        /\ IsExpired(cache[k], cNow)
        /\ cache' = [cache EXCEPT ![k] = NoEntry]
        /\ accessOrder' = OrderDelete(accessOrder, k)
        /\ cacheLast' = [op |-> "get", key |-> k, ret |-> Null, evicted |-> {}]
        /\ UNCHANGED recency
     \/ /\ cache[k] # NoEntry
        /\ ~IsExpired(cache[k], cNow)
        /\ cache[k].hits < MaxHits
        /\ cache' = [cache EXCEPT ![k].hits = @ + 1]
        /\ accessOrder' = UpdateAccessOrder(accessOrder, k)
        /\ recency' = Touch(recency, k)
        /\ cacheLast' = [op |-> "get", key |-> k, ret |-> cache[k].data,
                         evicted |-> {}]
  /\ UNCHANGED <<maxSize, cNow, cacheHung>>

CacheGet(k) ==
  /\ GetEffect(k)
  /\ UNCHANGED nonCacheVars

\* lines 404-417
CacheHas(k) ==
  /\ ~cacheHung
  /\ IF cache[k] = NoEntry \/ IsExpired(cache[k], cNow)
       THEN /\ cache' = [cache EXCEPT ![k] = NoEntry]
            /\ accessOrder' = IF cache[k] # NoEntry
                                THEN OrderDelete(accessOrder, k) ELSE accessOrder
            /\ cacheLast' = [op |-> "has", key |-> k, ret |-> "false", evicted |-> {}]
       ELSE /\ cacheLast' = [op |-> "has", key |-> k, ret |-> "true", evicted |-> {}]
            /\ UNCHANGED <<cache, accessOrder>>
  /\ UNCHANGED <<maxSize, cNow, cacheHung, recency>>
  /\ UNCHANGED nonCacheVars

\* lines 419-426
CacheDelete(k) ==
  /\ ~cacheHung
  /\ cache' = [cache EXCEPT ![k] = NoEntry]
  /\ accessOrder' = IF cache[k] # NoEntry
                      THEN OrderDelete(accessOrder, k) ELSE accessOrder
  /\ cacheLast' = [op |-> "delete", key |-> k,
                   ret |-> IF cache[k] # NoEntry THEN "true" ELSE "false",
                   evicted |-> {}]
  /\ UNCHANGED <<maxSize, cNow, cacheHung, recency>>
  /\ UNCHANGED nonCacheVars

\* lines 428-431
CacheClear ==
  /\ ~cacheHung
  /\ cache' = [k \in CKeys |-> NoEntry]
  /\ accessOrder' = <<>>
  /\ cacheLast' = [op |-> "clear", key |-> "none", ret |-> Null, evicted |-> {}]
  /\ UNCHANGED <<maxSize, cNow, cacheHung, recency>>
  /\ UNCHANGED nonCacheVars

\* lines 457-467 (also run by the timer of lines 482-485)
ExpiredKeys(c, now) == {k \in Present(c) : IsExpired(c[k], now)}

CacheCleanup ==
  /\ ~cacheHung
  /\ cache' = [k \in CKeys |->
                 IF k \in ExpiredKeys(cache, cNow) THEN NoEntry ELSE cache[k]]
  /\ accessOrder' = SelectSeq(accessOrder,
                              LAMBDA x : x \notin ExpiredKeys(cache, cNow))
  /\ cacheLast' = [op |-> "cleanup", key |-> "none",
                   ret |-> Cardinality(ExpiredKeys(cache, cNow)), evicted |-> {}]
  /\ UNCHANGED <<maxSize, cNow, cacheHung, recency>>
  /\ UNCHANGED nonCacheVars

\* Date.now() advances
CacheTick ==
  /\ ~cacheHung
  /\ cNow < MaxCacheTime
  /\ cNow' = cNow + 1
  /\ UNCHANGED <<maxSize, cache, accessOrder, cacheHung, recency, cacheLast>>
  /\ UNCHANGED nonCacheVars

\* lines 317-328: state after construction
CacheInit ==
  /\ maxSize \in 1..MaxMaxSize
  /\ cache = [k \in CKeys |-> NoEntry]
  /\ accessOrder = <<>>
  /\ cNow = 0
  /\ cacheHung = FALSE
  /\ recency = <<>>
  /\ cacheLast = NoOp

CacheNext ==
  \/ \E k \in CKeys, d \in Data, ttl \in TTLs : CacheSet(k, d, ttl)
  \/ \E k \in CKeys : CacheGet(k)
  \/ \E k \in CKeys : CacheHas(k)
  \/ \E k \in CKeys : CacheDelete(k)
  \/ CacheClear
  \/ CacheCleanup
  \/ CacheTick

(***************************************************************************)
(* CopilotSearchAgent: searchAndAnswer and handleStream                    *)
(* (src/lib/search/copilotSearchAgent.ts); the answer cache is the         *)
(* SearchCache above (searchResultCache)                                   *)
(***************************************************************************)
\* a run is identified with the executor call slot it uses
Runs == CallIds
NoRequest == "none"
\* the chunks of on_llm_stream events; a chunk may be the empty string
Chunks == {<<"x">>, <<>>}
\* searchResultCache is constructed with defaultTTL 15 minutes (line 473 of
\* smartTimeout.ts); one tick of the model's clock
defaultTTL == 1

Response(d) == [type |-> "response", data |-> d]
Thinking == [type |-> "thinking", data |-> <<"Generating multiple search queries">>]
Status == [type |-> "status", data |-> <<"Searching multiple sources">>]
EndEvent == [type |-> "end", data |-> <<>>]
ErrorEvent == [type |-> "error", data |-> <<>>]

Emit(r, evs) == events' = [events EXCEPT ![r] = @ \o evs]

\* lines 95-133: searchAndAnswer up to its return
SearchAndAnswer(r, k) ==
  /\ runPc[r] = "idle"
  /\ GetEffect(k)
  /\ runReq' = [runReq EXCEPT ![r] = k]
  /\ \/ \* lines 101-107: cache hit, the emission is deferred with setTimeout
        /\ cacheLast'.ret # Null
        /\ cachedResult' = [cachedResult EXCEPT ![r] = cacheLast'.ret]
        /\ runPc' = [runPc EXCEPT ![r] = "cached"]
        /\ UNCHANGED <<events, fullResponse>>
     \/ \* lines 109-127: the chain is built and handleStream starts
        /\ cacheLast'.ret = Null
        /\ runPc' = [runPc EXCEPT ![r] = "streaming"]
        /\ UNCHANGED <<events, fullResponse, cachedResult>>
     \/ \* lines 128-130: building or starting the chain throws; the emitter
        \* has no listener yet, so emit('error') rethrows and the call rejects
        /\ cacheLast'.ret = Null
        /\ Emit(r, <<ErrorEvent>>)
        /\ runPc' = [runPc EXCEPT ![r] = "rejected"]
        /\ UNCHANGED <<fullResponse, cachedResult>>
  /\ UNCHANGED nonStreamCacheVars

\* lines 102-105: the deferred emission of the cached answer
CachedEmit(r) ==
  /\ runPc[r] = "cached"
  /\ Emit(r, <<Response(cachedResult[r]), EndEvent>>)
  /\ runPc' = [runPc EXCEPT ![r] = "ended"]
  /\ UNCHANGED <<runReq, fullResponse, cachedResult>>
  /\ UNCHANGED <<cacheVars, nonStreamCacheVars>>

\* line 386: fullResponse += chunk
AppendChunkKeepsLast(full, ch) == IF ch = <<>> THEN full ELSE ch
AppendChunk(full, ch) == full \o ch

\* lines 384-387: an on_llm_stream event of CopilotResponseGenerator
StreamChunk(r, ch) ==
  /\ runPc[r] = "streaming"
  /\ Len(events[r]) < MaxEvents
  /\ fullResponse' = [fullResponse EXCEPT ![r] = AppendChunk(@, ch)]
  /\ Emit(r, <<Response(ch)>>)
  /\ UNCHANGED <<runReq, runPc, cachedResult>>
  /\ UNCHANGED <<cacheVars, nonStreamCacheVars>>

\* lines 388-397: an on_llm_start or on_chain_start event of CopilotSourceRetriever
StreamNotice(r, ev) ==
  /\ runPc[r] = "streaming"
  /\ Len(events[r]) < MaxEvents
  /\ Emit(r, <<ev>>)
  /\ UNCHANGED <<runReq, runPc, fullResponse, cachedResult>>
  /\ UNCHANGED <<cacheVars, nonStreamCacheVars>>

\* line 406
AfterLoopNothing(log) == log
AfterLoop(log) == Append(log, EndEvent)

\* lines 401-406: the stream is exhausted
StreamEnd(r) ==
  /\ runPc[r] = "streaming"
  /\ IF fullResponse[r] # <<>>
       THEN SetEffect(runReq[r], fullResponse[r], defaultTTL)
       ELSE UNCHANGED cacheVars
  /\ ~cacheHung'
  /\ events' = [events EXCEPT ![r] = AfterLoop(@)]
  /\ runPc' = [runPc EXCEPT ![r] = "ended"]
  /\ UNCHANGED <<runReq, fullResponse, cachedResult>>
  /\ UNCHANGED nonStreamCacheVars

\* lines 407-409: the stream throws; the variant stores what has arrived
StreamThrowStoresPartial(r) ==
  /\ runPc[r] = "streaming"
  /\ IF fullResponse[r] # <<>>
       THEN SetEffect(runReq[r], fullResponse[r], defaultTTL)
       ELSE UNCHANGED cacheVars
  /\ Emit(r, <<ErrorEvent>>)
  /\ runPc' = [runPc EXCEPT ![r] = "failed"]
  /\ UNCHANGED <<runReq, fullResponse, cachedResult>>
  /\ UNCHANGED nonStreamCacheVars
StreamThrow(r) ==
  /\ runPc[r] = "streaming"
  /\ Emit(r, <<ErrorEvent>>)
  /\ runPc' = [runPc EXCEPT ![r] = "failed"]
  /\ UNCHANGED <<runReq, fullResponse, cachedResult>>
  /\ UNCHANGED <<cacheVars, nonStreamCacheVars>>

StreamInit ==
  /\ runReq = [r \in Runs |-> NoRequest]
  /\ runPc = [r \in Runs |-> "idle"]
  /\ events = [r \in Runs |-> <<>>]
  /\ fullResponse = [r \in Runs |-> <<>>]
  /\ cachedResult = [r \in Runs |-> Null]

StreamNext ==
  \/ \E r \in Runs, k \in CKeys : SearchAndAnswer(r, k)
  \/ \E r \in Runs : CachedEmit(r)
  \/ \E r \in Runs, ch \in Chunks : StreamChunk(r, ch)
  \/ \E r \in Runs, ev \in {Thinking, Status} : StreamNotice(r, ev)
  \/ \E r \in Runs : StreamEnd(r)
  \/ \E r \in Runs : StreamThrow(r)
  \/ CacheTick
  \/ CacheCleanup

(***************************************************************************)
(* CopilotSearchAgent: the retrieval stage on the shared executor          *)
(***************************************************************************)
SubQueries == {"s1", "s2"}
\* createCopilotChain, line 331: at most 2 sub-queries in speed mode
maxQueries == 2
SubQueryLists == UNION {[1..n -> SubQueries] : n \in 1..maxQueries}

\* line 171: id: `search-${index}`
SearchTaskId(i) == IF i = 1 THEN "search-0" ELSE "search-1"

\* lines 170-181: the task of sub-query i of run r; its unit of work, named
\* <<r, i>>, searches for qs[i]
SearchTasks(r, qs) ==
  [i \in 1..Len(qs) |-> [id |-> SearchTaskId(i), work |-> <<r, i>>]]

\* lines 169-183: searchMultipleQueries up to its await
StartRetrieval(r, qs) ==
  /\ runStage[r] = "idle"
  /\ ExecuteEffect(r, "results", SearchTasks(r, qs))
  /\ subQueries' = [subQueries EXCEPT ![r] = qs]
  /\ runStage' = [runStage EXCEPT ![r] = "retrieval"]
  /\ UNCHANGED searchDocs
  /\ UNCHANGED nonStageExecVars

\* lines 203-213: the documents a unit of work produces carry the sub-query it
\* searched for (metadata.query)
DocsOfWork(w) == <<[query |-> subQueries[w[1]][w[2]]]>>

\* lines 185-187: keep the records with a result, concatenate their documents;
\* every document is tagged with the slot of the record it came from
RECURSIVE FlatMapRecords(_, _)
FlatMapRecords(recs, i) ==
  IF i > Len(recs) THEN <<>>
  ELSE (IF recs[i].ok
          THEN [n \in 1..Len(DocsOfWork(recs[i].from)) |->
                  [slot |-> i, query |-> DocsOfWork(recs[i].from)[n].query]]
          ELSE <<>>) \o FlatMapRecords(recs, i + 1)

\* lines 183-187: searchMultipleQueries after its await
FinishRetrieval(r) ==
  /\ runStage[r] = "retrieval"
  /\ calls[r].status = "returned"
  /\ searchDocs' = [searchDocs EXCEPT ![r] = FlatMapRecords(calls[r].records, 1)]
  /\ runStage' = [runStage EXCEPT ![r] = "retrieved"]
  /\ UNCHANGED <<subQueries, execVars>>
  /\ UNCHANGED nonStageExecVars

StageInit ==
  /\ runStage = [r \in Runs |-> "idle"]
  /\ subQueries = [r \in Runs |-> <<>>]
  /\ searchDocs = [r \in Runs |-> <<>>]

StageNext ==
  \/ \E r \in Runs, qs \in SubQueryLists : StartRetrieval(r, qs)
  \/ \E r \in Runs : FinishRetrieval(r)
  \/ \E j \in JobIds : UnitResolve(j)
  \/ \E j \in JobIds : UnitReject(j)
  \/ \E j \in JobIds : AttemptTimeout(j)
  \/ \E j \in JobIds, n \in 1..retryAttempts : StaleUnitSettles(j, n)
  \/ \E j \in JobIds : BackoffTick(j)
  \/ \E j \in JobIds : BackoffDone(j)
  \/ \E c \in CallIds : ReturnResults(c)

(***************************************************************************)
(* CopilotSearchAgent: extractPageContent on the shared executor           *)
(***************************************************************************)
Urls == {"u1", "u2"}
Contents == {"c1", "c2"}
\* the documents of searchSingleQuery: a URL and the snippet of the result
\* (lines 203-213)
Docs == [url : Urls, content : Contents]
DocLists == UNION {[1..n -> Docs] : n \in 0..MaxDocs}
\* the call of extractPageContent uses this call slot of the executor
ExtractCall == 1
\* line 232: at most 10 URLs are extracted
maxExtractedUrls == 10

\* line 231: [...new Set(docs.map(doc => doc.metadata.url))], the URLs in the
\* order of their first occurrence
RECURSIVE UniqueUrls(_, _)
UniqueUrls(docs, i) ==
  IF i > Len(docs) THEN <<>>
  ELSE (IF \E j \in 1..(i - 1) : docs[j].url = docs[i].url
          THEN <<>> ELSE <<docs[i].url>>) \o UniqueUrls(docs, i + 1)

\* line 232
UrlGroups(docs) ==
  LET u == UniqueUrls(docs, 1)
  IN SubSeq(u, 1, IF Len(u) < maxExtractedUrls THEN Len(u) ELSE maxExtractedUrls)

\* line 235: id: `extract-${index}`
ExtractTaskId(i) == IF i = 1 THEN "extract-0" ELSE "extract-1"

\* lines 234-242: the task of URL i; its unit of work is named <<call, i>>
ExtractionTasks(urls) ==
  [i \in 1..Len(urls) |-> [id |-> ExtractTaskId(i), work |-> <<ExtractCall, i>>]]

\* lines 225-244: extractPageContent up to its await, or its early return
StartExtraction(docs, enable) ==
  /\ extPc = "idle"
  /\ extIn' = docs
  /\ extConfig' = enable
  /\ IF ~enable
       THEN /\ extOut' = docs
            /\ extPc' = "done"
            /\ UNCHANGED execVars
       ELSE /\ ExecuteEffect(ExtractCall, "results", ExtractionTasks(UrlGroups(docs)))
            /\ extPc' = "extracting"
            /\ UNCHANGED extOut
  /\ UNCHANGED nonExtractExecVars

\* lines 270-277: the document extractSinglePage builds for a URL
ExtractedDoc(url) == [url |-> url, content |-> "summary"]

\* lines 246-248: keep the records with a result and return their documents
RECURSIVE ExtractionOutput(_, _, _)
ExtractionOutput(recs, urls, i) ==
  IF i > Len(recs) THEN <<>>
  ELSE (IF recs[i].ok THEN <<ExtractedDoc(urls[recs[i].from[2]])>> ELSE <<>>)
         \o ExtractionOutput(recs, urls, i + 1)

\* lines 244-248: extractPageContent after its await (executeWithResults does
\* not reject, so the catch of lines 249-252 is not entered from it)
FinishExtraction ==
  /\ extPc = "extracting"
  /\ calls[ExtractCall].status = "returned"
  /\ extOut' = ExtractionOutput(calls[ExtractCall].records, UrlGroups(extIn), 1)
  /\ extPc' = "done"
  /\ UNCHANGED <<extIn, extConfig, execVars>>
  /\ UNCHANGED nonExtractExecVars

ExtractInit ==
  /\ extPc = "idle"
  /\ extConfig = FALSE
  /\ extIn = <<>>
  /\ extOut = <<>>

ExtractNext ==
  \/ \E docs \in DocLists, enable \in BOOLEAN : StartExtraction(docs, enable)
  \/ FinishExtraction
  \/ \E j \in JobIds : UnitResolve(j)
  \/ \E j \in JobIds : UnitReject(j)
  \/ \E j \in JobIds : AttemptTimeout(j)
  \/ \E j \in JobIds, n \in 1..retryAttempts : StaleUnitSettles(j, n)
  \/ \E j \in JobIds : BackoffTick(j)
  \/ \E j \in JobIds : BackoffDone(j)
  \/ \E c \in CallIds : ReturnResults(c)

(***************************************************************************)
(* CopilotSearchAgent: rerankAndDeduplicate (lines 287-323)                *)
(***************************************************************************)
RerankUrls == {"u1", "u2", "u3"}
RerankDocs == [url : RerankUrls, content : Contents]
RerankLists == UNION {[1..n -> RerankDocs] : n \in 0..MaxRerankDocs}
\* computeSimilarity of the query and a page content, on a scale of integers
Similarities == [Contents -> 0..MaxSimilarity]
\* config.rerankThreshold on that scale, and the cap of lines 317 and 321 (15
\* in the source) scaled to the lists of the model
rerankThreshold == 1
maxReranked == 2

\* lines 294-296: keep a document when no earlier one has its URL
RECURSIVE UniqueDocsKeepsLast(_, _)
UniqueDocsKeepsLast(docs, i) ==
  IF i > Len(docs) THEN <<>>
  ELSE (IF \E j \in (i + 1)..Len(docs) : docs[j].url = docs[i].url
          THEN <<>> ELSE <<docs[i]>>) \o UniqueDocsKeepsLast(docs, i + 1)
RECURSIVE UniqueDocs(_, _)
UniqueDocs(docs, i) ==
  IF i > Len(docs) THEN <<>>
  ELSE (IF \E j \in 1..(i - 1) : docs[j].url = docs[i].url
          THEN <<>> ELSE <<docs[i]>>) \o UniqueDocs(docs, i + 1)

\* lines 309-313
SimilarityItems(uniq, sim) ==
  [i \in 1..Len(uniq) |-> [index |-> i, similarity |-> sim[uniq[i].content],
                           doc |-> uniq[i]]]

\* line 315
AboveThreshold(item) == item.similarity > rerankThreshold

\* line 316: Array.prototype.sort is stable; descending similarity
RECURSIVE InsertDesc(_, _)
InsertDesc(sorted, item) ==
  IF sorted = <<>> THEN <<item>>
  ELSE IF Head(sorted).similarity >= item.similarity
         THEN <<Head(sorted)>> \o InsertDesc(Tail(sorted), item)
         ELSE <<item>> \o sorted
RECURSIVE SortDesc(_)
SortDesc(items) ==
  IF items = <<>> THEN <<>>
  ELSE InsertDesc(SortDesc(SubSeq(items, 1, Len(items) - 1)), items[Len(items)])

\* lines 317 and 321: slice(0, 15)
Cap(seq) == SubSeq(seq, 1, IF Len(seq) < maxReranked THEN Len(seq) ELSE maxReranked)

\* lines 314-318
Ranked(uniq, sim) ==
  LET kept == Cap(SortDesc(SelectSeq(SimilarityItems(uniq, sim), AboveThreshold)))
  IN [i \in 1..Len(kept) |-> kept[i].doc]

IdleRerank == [pc |-> "idle", docs |-> <<>>, sim |-> [c \in Contents |-> 0],
               embedOk |-> FALSE, embedded |-> <<>>, result |-> <<>>]

\* lines 287-323; embedOk tells whether both embedding calls succeeded
RerankAndDeduplicate(docs, sim, embedOk) ==
  /\ rr.pc = "idle"
  /\ LET uniq == UniqueDocs(docs, 1) IN
       rr' = [pc |-> "done", docs |-> docs, sim |-> sim, embedOk |-> embedOk,
              embedded |-> IF docs = <<>> THEN <<>> ELSE uniq,
              result |-> IF docs = <<>> THEN <<>>
                         ELSE IF embedOk THEN Ranked(uniq, sim)
                         ELSE Cap(uniq)]
  /\ UNCHANGED nonRerankVars

RerankInit == rr = IdleRerank

RerankNext ==
  \E docs \in RerankLists, sim \in Similarities, embedOk \in BOOLEAN :
     RerankAndDeduplicate(docs, sim, embedOk)

(***************************************************************************)
(* CopilotSearchAgent: generateMultipleQueries, the parsing of the model's *)
(* response (lines 155-166), and the maximum of createCopilotChain         *)
(***************************************************************************)
\* strings are sequences of characters; " " stands for any white space that
\* is not a line break
Space == " "
UserQuery == <<"q">>
\* the lines between <queries> and </queries>
LineValues == {<<>>, <<Space>>, <<"a">>, <<Space, "b", Space>>}
LineLists == UNION {[1..n -> LineValues] : n \in 0..MaxLines}
Modes == {"speed", "balanced", "quality"}

\* createCopilotChain, line 331
MaxQueriesOf(mode) ==
  IF mode = "speed" THEN 2 ELSE IF mode = "balanced" THEN 3 ELSE 4

\* String.prototype.trim on one line
RECURSIVE TrimStart(_)
TrimStart(l) == IF l # <<>> /\ Head(l) = Space THEN TrimStart(Tail(l)) ELSE l
RECURSIVE TrimEnd(_)
TrimEnd(l) ==
  IF l # <<>> /\ l[Len(l)] = Space THEN TrimEnd(SubSeq(l, 1, Len(l) - 1)) ELSE l
Trim(l) == TrimEnd(TrimStart(l))

\* line 158: trim() on the whole capture removes the white space, line breaks
\* included, at its two ends; line 159: split('\n') of what is left (the
\* empty string splits into one empty line)
RECURSIVE TrimStartLines(_)
TrimStartLines(ls) ==
  IF ls = <<>> THEN <<>>
  ELSE IF TrimStart(Head(ls)) = <<>> THEN TrimStartLines(Tail(ls))
  ELSE <<TrimStart(Head(ls))>> \o Tail(ls)
RECURSIVE TrimEndLines(_)
TrimEndLines(ls) ==
  IF ls = <<>> THEN <<>>
  ELSE IF TrimEnd(ls[Len(ls)]) = <<>> THEN TrimEndLines(SubSeq(ls, 1, Len(ls) - 1))
  ELSE SubSeq(ls, 1, Len(ls) - 1) \o <<TrimEnd(ls[Len(ls)])>>
TrimAndSplit(ls) ==
  LET t == TrimEndLines(TrimStartLines(ls)) IN IF t = <<>> THEN <<<<>>>> ELSE t

\* line 160: map(q => q.trim())
MapTrim(ls) == [i \in 1..Len(ls) |-> Trim(ls[i])]
\* line 161: filter(q => q.length > 0)
FilterNonEmpty(ls) == SelectSeq(ls, LAMBDA l : Len(l) > 0)
\* line 162: slice(0, maxQueries)
SliceAll(ls, n) == ls
Slice(ls, n) == SubSeq(ls, 1, IF Len(ls) < n THEN Len(ls) ELSE n)

\* lines 155-166: matched tells whether the response holds a delimited list
ParseQueries(query, matched, ls, maxQ) ==
  IF matched
    THEN Slice(FilterNonEmpty(MapTrim(TrimAndSplit(ls))), maxQ)
    ELSE <<query>>

IdleGen == [pc |-> "idle", mode |-> "speed", matched |-> FALSE, lines |-> <<>>,
            result |-> <<>>]

\* lines 135-167 with the maximum of line 331, for a response of the language
\* model that arrived
GenerateMultipleQueries(mode, matched, ls) ==
  /\ gen.pc = "idle"
  /\ gen' = [pc |-> "done", mode |-> mode, matched |-> matched, lines |-> ls,
             result |-> ParseQueries(UserQuery, matched, ls, MaxQueriesOf(mode))]
  /\ UNCHANGED nonGenVars

GenInit == gen = IdleGen

GenNext ==
  \E mode \in Modes, matched \in BOOLEAN, ls \in LineLists :
     GenerateMultipleQueries(mode, matched, ls)

(***************************************************************************)
(* CopilotSearchAgent: one run of the context step of createCopilotChain   *)
(* (lines 339-358) followed by the response generation (lines 362-369),    *)
(* in speed mode, on the shared executor                                   *)
(***************************************************************************)
StageNames == <<"QueryGeneration", "ParallelRetrieval", "ContentExtraction",
                "Reranking", "Synthesis">>
\* the calls of executeWithResults made by the two stages that use the executor
RetrievalCall == 1
ExtractionCall == 2

\* computeSimilarity over the contents a run can hold: snippets and summaries
PipeSimilarities == [Contents \cup {ExtractedDoc("u1").content} -> 0..MaxSimilarity]

IdlePipe == [pc |-> "idle", enable |-> FALSE, queries |-> <<>>,
             searchDocs |-> <<>>, extractedDocs |-> <<>>, finalDocs |-> <<>>,
             log |-> <<>>]

Enter(stage) == Append(pipe.log, stage)

\* lines 340-345: the context step starts and awaits generateMultipleQueries
PipeStart(enable) ==
  /\ pipe.pc = "idle"
  /\ pipe' = [pipe EXCEPT !.pc = "QueryGeneration", !.enable = enable,
                          !.log = Enter("QueryGeneration")]
  /\ UNCHANGED <<execVars, nonPipeExecVars>>

\* lines 340-347: the sub-queries are parsed and searchMultipleQueries hands
\* its tasks to the executor
PipeQueriesGenerated(matched, ls) ==
  /\ pipe.pc = "QueryGeneration"
  /\ LET qs == ParseQueries(UserQuery, matched, ls, maxQueries) IN
       /\ ExecuteEffect(RetrievalCall, "results", SearchTasks(RetrievalCall, qs))
       /\ pipe' = [pipe EXCEPT !.pc = "ParallelRetrieval", !.queries = qs,
                               !.log = Enter("ParallelRetrieval")]
  /\ UNCHANGED nonPipeExecVars

\* a stage throws (language model, timeout, embedding provider): the chain
\* fails and no later stage runs
PipeFails ==
  /\ pipe.pc \in {"QueryGeneration", "Synthesis"}
  /\ pipe' = [pipe EXCEPT !.pc = "failed"]
  /\ UNCHANGED <<execVars, nonPipeExecVars>>

\* lines 185-187: the documents of the records without error; found[i] is the
\* document the search of sub-query i returned
RECURSIVE RetrievedDocs(_, _, _)
RetrievedDocs(recs, found, i) ==
  IF i > Len(recs) THEN <<>>
  ELSE (IF recs[i].ok THEN <<found[recs[i].from[2]]>> ELSE <<>>)
         \o RetrievedDocs(recs, found, i + 1)

\* lines 347-348: searchMultipleQueries returns and extractPageContent starts:
\* it returns the documents at once when extraction is disabled (line 226)
PipeRetrieved(found) ==
  /\ pipe.pc = "ParallelRetrieval"
  /\ calls[RetrievalCall].status = "returned"
  /\ LET docs == RetrievedDocs(calls[RetrievalCall].records, found, 1) IN
       IF pipe.enable
         THEN /\ ExecuteEffect(ExtractionCall, "results",
                               ExtractionTasks(UrlGroups(docs)))
              /\ pipe' = [pipe EXCEPT !.pc = "ContentExtraction",
                                      !.searchDocs = docs,
                                      !.log = Enter("ContentExtraction")]
         ELSE /\ pipe' = [pipe EXCEPT !.pc = "Reranking", !.searchDocs = docs,
                                      !.extractedDocs = docs,
                                      !.log = Enter("Reranking")]
              /\ UNCHANGED execVars
  /\ UNCHANGED nonPipeExecVars

\* lines 348-353: extractPageContent returns and rerankAndDeduplicate starts
PipeExtracted ==
  /\ pipe.pc = "ContentExtraction"
  /\ calls[ExtractionCall].status = "returned"
  /\ pipe' = [pipe EXCEPT !.pc = "Reranking",
                 !.extractedDocs = ExtractionOutput(calls[ExtractionCall].records,
                                                    UrlGroups(pipe.searchDocs), 1),
                 !.log = Enter("Reranking")]
  /\ UNCHANGED <<execVars, nonPipeExecVars>>

\* lines 349-369: rerankAndDeduplicate returns, the context string is built and
\* the response generation starts
PipeReranked(sim, embedOk) ==
  /\ pipe.pc = "Reranking"
  /\ LET uniq == UniqueDocs(pipe.extractedDocs, 1) IN
       pipe' = [pipe EXCEPT !.pc = "Synthesis",
                  !.finalDocs = IF pipe.extractedDocs = <<>> THEN <<>>
                                ELSE IF embedOk THEN Ranked(uniq, sim)
                                ELSE Cap(uniq),
                  !.log = Enter("Synthesis")]
  /\ UNCHANGED <<execVars, nonPipeExecVars>>

\* lines 362-369: the answer is generated
PipeSynthesized ==
  /\ pipe.pc = "Synthesis"
  /\ pipe' = [pipe EXCEPT !.pc = "done"]
  /\ UNCHANGED <<execVars, nonPipeExecVars>>

PipeInit == pipe = IdlePipe

PipeNext ==
  \/ \E enable \in BOOLEAN : PipeStart(enable)
  \/ \E matched \in BOOLEAN, ls \in LineLists : PipeQueriesGenerated(matched, ls)
  \/ PipeFails
  \/ \E found \in [1..maxQueries -> Docs] : PipeRetrieved(found)
  \/ PipeExtracted
  \/ \E sim \in PipeSimilarities, embedOk \in BOOLEAN : PipeReranked(sim, embedOk)
  \/ PipeSynthesized
  \/ \E j \in JobIds : UnitResolve(j)
  \/ \E j \in JobIds : UnitReject(j)
  \/ \E j \in JobIds : AttemptTimeout(j)
  \/ \E j \in JobIds, n \in 1..retryAttempts : StaleUnitSettles(j, n)
  \/ \E j \in JobIds : BackoffTick(j)
  \/ \E j \in JobIds : BackoffDone(j)
  \/ \E c \in CallIds : ReturnResults(c)

(***************************************************************************)
(* ParallelProcessor.executeBatched (lines 110-127); its groups run through *)
(* execute on the call slot BatchCall                                      *)
(***************************************************************************)
BatchCall == CHOOSE c \in CallIds : TRUE
Priorities == 0..MaxPriority
BatchIds == <<"search-0", "search-1", "extract-0", "extract-1">>
\* the task lists handed to executeBatched: task i has its own id and unit of
\* work and the priority ps[i]
BatchTasks(ps) ==
  [i \in 1..Len(ps) |-> [id |-> BatchIds[i], work |-> <<BatchCall, i>>,
                          priority |-> ps[i]]]
PriorityLists == UNION {[1..n -> Priorities] : n \in 0..MaxBatchTasks}
\* batchSize; 0 stands for a call without batchSize
BatchSizes == 0..MaxBatchSize

\* line 118: [...tasks].sort((a, b) => (b.priority || 0) - (a.priority || 0));
\* the sort is stable
RECURSIVE InsertByPriority(_, _)
InsertByPriority(sorted, t) ==
  IF sorted = <<>> THEN <<t>>
  ELSE IF Head(sorted).priority >= t.priority
         THEN <<Head(sorted)>> \o InsertByPriority(Tail(sorted), t)
  ELSE <<t>> \o sorted

SortByPriorityKeepsOrder(ts) == ts
RECURSIVE SortByPriority(_)
SortByPriority(ts) ==
  IF ts = <<>> THEN <<>>
  ELSE InsertByPriority(SortByPriority(SubSeq(ts, 1, Len(ts) - 1)), ts[Len(ts)])

\* line 121: sortedTasks.slice(i, i + size), with i counted from 1 here
Group(sorted, i, size) ==
  SubSeq(sorted, i, IF i + size - 1 < Len(sorted) THEN i + size - 1 ELSE Len(sorted))

\* line 122: this.execute(batch) up to its await
GroupEffect(group) ==
  LET r == StartAll(group, 1, jobs, activeJobs, <<>>) IN
    /\ jobs' = r[1]
    /\ activeJobs' = r[2]
    /\ calls' = [calls EXCEPT ![BatchCall] =
                   [mode |-> "execute", tasks |-> group, slots |-> r[3],
                    status |-> "pending", records |-> <<>>]]

IdleBatch == [pc |-> "idle", tasks |-> <<>>, sorted |-> <<>>, size |-> 0, i |-> 0,
              results |-> <<>>]

\* lines 110-122: executeBatched up to the await of the first group; with no
\* task it returns at once
ExecuteBatched(ts, batchSize) ==
  /\ batch.pc = "idle"
  /\ calls[BatchCall].mode = "idle"
  /\ LET size == IF batchSize # 0 THEN batchSize ELSE maxConcurrency
         sorted == SortByPriority(ts)
     IN IF sorted = <<>>
          THEN /\ batch' = [IdleBatch EXCEPT !.pc = "returned", !.size = size]
               /\ UNCHANGED execVars
          ELSE /\ batch' = [IdleBatch EXCEPT !.pc = "running", !.tasks = ts,
                               !.sorted = sorted, !.size = size, !.i = 1]
               /\ GroupEffect(Group(sorted, 1, size))
  /\ UNCHANGED nonBatchExecVars

\* lines 120-126: the awaited execute settled: executeBatched rejects with its
\* error, or keeps the results and goes on to the next group, or returns
BatchContinue ==
  /\ batch.pc = "running"
  /\ calls[BatchCall].status \in {"returned", "raised"}
  /\ LET next == batch.i + batch.size
         results == batch.results \o calls[BatchCall].records
     IN IF calls[BatchCall].status = "raised"
          THEN /\ batch' = [batch EXCEPT !.pc = "raised"]
               /\ calls' = [calls EXCEPT ![BatchCall] = IdleCall]
               /\ UNCHANGED <<activeJobs, jobs>>
          ELSE IF next > Len(batch.sorted)
          THEN /\ batch' = [batch EXCEPT !.pc = "returned", !.results = results]
               /\ calls' = [calls EXCEPT ![BatchCall] = IdleCall]
               /\ UNCHANGED <<activeJobs, jobs>>
          ELSE /\ batch' = [batch EXCEPT !.i = next, !.results = results]
               /\ GroupEffect(Group(batch.sorted, next, batch.size))
  /\ UNCHANGED nonBatchExecVars

BatchInit == batch = IdleBatch

BatchNext ==
  \/ \E ps \in PriorityLists, size \in BatchSizes : ExecuteBatched(BatchTasks(ps), size)
  \/ BatchContinue
  \/ \E j \in JobIds : UnitResolve(j)
  \/ \E j \in JobIds : UnitReject(j)
  \/ \E j \in JobIds : AttemptTimeout(j)
  \/ \E j \in JobIds, n \in 1..retryAttempts : StaleUnitSettles(j, n)
  \/ \E j \in JobIds : BackoffTick(j)
  \/ \E j \in JobIds : BackoffDone(j)
  \/ ReturnExecute(BatchCall)

(***************************************************************************)
(* SmartTimeout (smartTimeout.ts lines 15-256); times are milliseconds     *)
(***************************************************************************)
\* lines 22-28: the defaults of the configuration
baseTimeout == 30000
maxTimeout == 120000
minTimeout == 5000
adaptiveEnabled == TRUE
\* the history sizes the model is run with (config.historySize)
HistorySizes == {1, 10, 11}
\* line 96: the number of recent successful records that are used
recentWindow == 20
\* line 113: the least buffer added to the 95th percentile
minBuffer == 2000
\* line 52: duration >= timeout - 100
timeoutTolerance == 100
\* line 141: history.length % 10 === 0
recomputeEvery == 10

RequestTypes == {"search-web", "embedding"}
Metric(d, ok) == [duration |-> d, success |-> ok]

Min(a, b) == IF a < b THEN a ELSE b
Max(a, b) == IF a > b THEN a ELSE b
\* Math.ceil(a / b) for a >= 0 and b > 0
CeilDiv(a, b) == (a + b - 1) \div b

RECURSIVE Sum(_)
Sum(ds) == IF ds = <<>> THEN 0 ELSE Head(ds) + Sum(Tail(ds))

\* line 107: sort((a, b) => a - b)
RECURSIVE InsertAsc(_, _)
InsertAsc(sorted, d) ==
  IF sorted = <<>> THEN <<d>>
  ELSE IF Head(sorted) <= d THEN <<Head(sorted)>> \o InsertAsc(Tail(sorted), d)
  ELSE <<d>> \o sorted

RECURSIVE SortAsc(_)
SortAsc(ds) == IF ds = <<>> THEN <<>> ELSE InsertAsc(SortAsc(Tail(ds)), Head(ds))

\* Array.prototype.slice(-n) for n >= 1
SliceLast(seq, n) ==
  IF Len(seq) <= n THEN seq ELSE SubSeq(seq, Len(seq) - n + 1, Len(seq))

\* lines 94-96: the most recent successful records
RecentSuccessful(history, size) ==
  SliceLast(SelectSeq(history, LAMBDA m : m.success), Min(recentWindow, size))

\* lines 108-109: durations[Math.ceil(length * 0.95) - 1] || maxDuration, on the
\* durations sorted in ascending order (indices from 1 here)
P95Duration(sorted) ==
  LET atIndex == sorted[CeilDiv(Len(sorted) * 95, 100)]
  IN IF atIndex # 0 THEN atIndex ELSE sorted[Len(sorted)]

\* lines 112-114: Math.ceil(p95Duration + Math.max(averageDuration * 0.5, 2000));
\* the durations are whole numbers, so the ceiling applies to the half average
AdaptiveOf(durations) ==
  P95Duration(SortAsc(durations))
    + Max(CeilDiv(Sum(durations), 2 * Len(durations)), minBuffer)

\* lines 117-120: Math.max(minTimeout, .) then Math.min(maxTimeout, .)
Clamp(t) == Min(maxTimeout, Max(minTimeout, t))

\* lines 86-121
CalculateAdaptiveTimeout(history, size) ==
  IF history = <<>> THEN baseTimeout
  ELSE LET recent == RecentSuccessful(history, size) IN
    IF recent = <<>> THEN baseTimeout
    ELSE Clamp(AdaptiveOf([i \in 1..Len(recent) |-> recent[i].duration]))

\* lines 70-84: what getTimeoutForType returns
TimeoutForType(t) ==
  IF ~adaptiveEnabled THEN baseTimeout
  ELSE IF currentTimeouts[t] # 0 THEN currentTimeouts[t]
  ELSE CalculateAdaptiveTimeout(metrics[t], historySize)

\* lines 80-82: and the cache of timeouts it leaves
TimeoutsAfterGet(t) ==
  IF adaptiveEnabled /\ currentTimeouts[t] = 0
    THEN [currentTimeouts EXCEPT ![t] = CalculateAdaptiveTimeout(metrics[t], historySize)]
    ELSE currentTimeouts

GetTimeoutForType(t) ==
  /\ currentTimeouts' = TimeoutsAfterGet(t)
  /\ UNCHANGED <<historySize, metrics, appended, lastRecord, tcall, prog, probe>>
  /\ UNCHANGED nonTimeoutVars

\* lines 136-138: history.splice(0, history.length - historySize)
SplicedKeepsOldest(history) ==
  IF Len(history) > historySize THEN SubSeq(history, 1, historySize) ELSE history
Spliced(history) ==
  IF Len(history) > historySize
    THEN SubSeq(history, Len(history) - historySize + 1, Len(history))
    ELSE history

\* line 141
RecomputeDue(history) == adaptiveEnabled /\ Len(history) % recomputeEvery = 0

\* lines 123-146: recordMetrics
RecordEffect(t, d, ok) ==
  LET history == Spliced(Append(metrics[t], Metric(d, ok))) IN
    /\ metrics' = [metrics EXCEPT ![t] = history]
    /\ currentTimeouts' =
         IF RecomputeDue(history)
           THEN [currentTimeouts EXCEPT ![t] = CalculateAdaptiveTimeout(history, historySize)]
           ELSE currentTimeouts
    /\ appended' = [appended EXCEPT ![t] = @ + 1]
    /\ lastRecord' = [type |-> t, recomputed |-> RecomputeDue(history)]
    /\ UNCHANGED historySize

RecordMetrics(t, d, ok) ==
  /\ appended[t] < (IF t = "search-web" THEN MaxRecords ELSE MaxOtherRecords)
  /\ RecordEffect(t, d, ok)
  /\ UNCHANGED <<tcall, prog, probe>>
  /\ UNCHANGED nonTimeoutVars

IdleTimeoutCall == [pc |-> "idle", type |-> "none", timeout |-> 0, cause |-> "none",
                    duration |-> 0, thrown |-> "none"]
IdleProgressive == [pc |-> "idle", type |-> "none", timeouts |-> <<>>, index |-> 0,
                    log |-> <<>>, thrown |-> "none"]
NoProbe == [history |-> <<>>, size |-> 0, timeout |-> 0]

TimeoutInit ==
  /\ historySize \in HistorySizes
  /\ metrics = [t \in RequestTypes |-> <<>>]
  /\ currentTimeouts = [t \in RequestTypes |-> 0]
  /\ appended = [t \in RequestTypes |-> 0]
  /\ lastRecord = [type |-> "none", recomputed |-> FALSE]
  /\ tcall = IdleTimeoutCall
  /\ prog = IdleProgressive
  /\ probe = NoProbe

\* the records the history model is run with: a success and a timed-out call
Samples == {Metric(29000, TRUE), Metric(30000, FALSE)}

HistoryNext ==
  \/ \E t \in RequestTypes : GetTimeoutForType(t)
  \/ \E m \in Samples : RecordMetrics("search-web", m.duration, m.success)
  \/ RecordMetrics("embedding", 29000, TRUE)

\* lines 36-43: executeWithTimeout up to its await: the timeout is chosen and
\* the operation races the timer; custom = 0 stands for no customTimeout
StartEffect(t, custom) ==
  /\ tcall.pc = "idle"
  /\ appended["search-web"] + appended["embedding"] < MaxTimeoutCalls
  /\ tcall' = [IdleTimeoutCall EXCEPT !.pc = "racing", !.type = t,
                 !.timeout = IF custom # 0 THEN custom ELSE TimeoutForType(t)]
  /\ currentTimeouts' = IF custom # 0 THEN currentTimeouts ELSE TimeoutsAfterGet(t)
  /\ UNCHANGED <<historySize, metrics, appended, lastRecord, probe>>

ExecuteWithTimeout(t, custom) ==
  /\ prog.pc = "idle"
  /\ StartEffect(t, custom)
  /\ UNCHANGED prog
  /\ UNCHANGED nonTimeoutVars

\* the values of Date.now() - startTime the operation can settle at, and the
\* timer can fire at, for a timeout
OperationElapsed(timeout) ==
  {e \in {0, timeout - timeoutTolerance - 1, timeout - timeoutTolerance, timeout} :
     e >= 0}
TimerElapsed(timeout) == {timeout, timeout + 1}

\* line 50
IsTimeout(duration, timeout) == duration >= timeout - timeoutTolerance

\* lines 40-46: the operation resolves first
OperationResolves(e) ==
  /\ tcall.pc = "racing"
  /\ e \in OperationElapsed(tcall.timeout)
  /\ RecordEffect(tcall.type, e, TRUE)
  /\ tcall' = [tcall EXCEPT !.pc = "returned", !.cause = "resolved", !.duration = e]
  /\ UNCHANGED <<prog, probe>>
  /\ UNCHANGED nonTimeoutVars

\* lines 48-59: the catch block, entered with the error the race rejected with
CatchEffect(cause, e) ==
  /\ RecordEffect(tcall.type, e, FALSE)
  /\ tcall' = [tcall EXCEPT !.pc = "raised", !.cause = cause, !.duration = e,
                 !.thrown = IF IsTimeout(e, tcall.timeout) THEN "TimeoutError"
                            ELSE "OperationError"]
  /\ UNCHANGED <<prog, probe>>

\* the operation rejects first, with an error of its own
OperationRejects(e) ==
  /\ tcall.pc = "racing"
  /\ e \in OperationElapsed(tcall.timeout)
  /\ CatchEffect("rejected", e)
  /\ UNCHANGED nonTimeoutVars

\* lines 62-68: the timer fires first and rejects with a TimeoutError
TimerFires(e) ==
  /\ tcall.pc = "racing"
  /\ e \in TimerElapsed(tcall.timeout)
  /\ CatchEffect("timer", e)
  /\ UNCHANGED nonTimeoutVars

\* the caller of executeWithTimeout receives the value or the error
TimeoutCallDone ==
  /\ prog.pc = "idle"
  /\ tcall.pc \in {"returned", "raised"}
  /\ tcall' = IdleTimeoutCall
  /\ UNCHANGED <<historySize, metrics, currentTimeouts, appended, lastRecord,
                 prog, probe>>
  /\ UNCHANGED nonTimeoutVars

\* line 194: the default timeouts, and other lists a caller passes
DefaultTimeouts == <<5000, 15000, 30000>>
TimeoutLists == {DefaultTimeouts, <<5000>>, <<>>}
CustomTimeouts == {0, 50, 5000}

\* lines 191-201: executeWithProgressiveTimeout up to the await of the first
\* executeWithTimeout; with no timeout it throws lastError, which is null
ExecuteWithProgressiveTimeout(t, timeouts) ==
  /\ prog.pc = "idle"
  /\ IF timeouts = <<>>
       THEN /\ tcall.pc = "idle"
            /\ prog' = [IdleProgressive EXCEPT !.pc = "raised", !.type = t,
                          !.thrown = "null"]
            /\ UNCHANGED timeoutVarsButProg
       ELSE /\ StartEffect(t, timeouts[1])
            /\ prog' = [IdleProgressive EXCEPT !.pc = "loop", !.type = t,
                          !.timeouts = timeouts, !.index = 1]
  /\ UNCHANGED nonTimeoutVars

Attempt == [timeout |-> tcall.timeout, cause |-> tcall.cause, thrown |-> tcall.thrown]

\* lines 198-209: the awaited executeWithTimeout settled: return its value,
\* rethrow what is not a TimeoutError, go on to the next timeout, or throw the
\* last error after the last timeout
ProgressiveContinue ==
  /\ prog.pc = "loop"
  /\ tcall.pc \in {"returned", "raised"}
  /\ IF tcall.pc = "returned"
       THEN /\ prog' = [prog EXCEPT !.pc = "returned", !.log = Append(@, Attempt)]
            /\ tcall' = IdleTimeoutCall
            /\ UNCHANGED <<historySize, metrics, currentTimeouts, appended,
                           lastRecord, probe>>
       ELSE IF tcall.thrown # "TimeoutError" \/ prog.index = Len(prog.timeouts)
       THEN /\ prog' = [prog EXCEPT !.pc = "raised", !.log = Append(@, Attempt),
                                    !.thrown = tcall.thrown]
            /\ tcall' = IdleTimeoutCall
            /\ UNCHANGED <<historySize, metrics, currentTimeouts, appended,
                           lastRecord, probe>>
       ELSE /\ prog' = [prog EXCEPT !.index = @ + 1, !.log = Append(@, Attempt)]
            /\ tcall' = [IdleTimeoutCall EXCEPT !.pc = "racing", !.type = prog.type,
                           !.timeout = prog.timeouts[prog.index + 1]]
            /\ UNCHANGED <<historySize, metrics, currentTimeouts, appended,
                           lastRecord, probe>>
  /\ UNCHANGED nonTimeoutVars

\* the caller of executeWithProgressiveTimeout receives the value or the error
ProgressiveDone ==
  /\ prog.pc \in {"returned", "raised"}
  /\ prog' = IdleProgressive
  /\ UNCHANGED timeoutVarsButProg
  /\ UNCHANGED nonTimeoutVars

TimeoutCallNext ==
  \/ \E t \in RequestTypes, custom \in CustomTimeouts : ExecuteWithTimeout(t, custom)
  \/ \E e \in OperationElapsed(tcall.timeout) : OperationResolves(e)
  \/ \E e \in OperationElapsed(tcall.timeout) : OperationRejects(e)
  \/ \E e \in TimerElapsed(tcall.timeout) : TimerFires(e)
  \/ TimeoutCallDone
  \/ \E t \in RequestTypes, ts \in TimeoutLists : ExecuteWithProgressiveTimeout(t, ts)
  \/ ProgressiveContinue
  \/ ProgressiveDone

\* calculateAdaptiveTimeout on its own: histories made of up to three runs of
\* equal records, no longer than the history size
ProbeDurations == {0, 1000, 7000, 100000}
ProbeRuns == {0, 1, MaxRun}
ProbeSizes == {10, 100}
Run(d, ok, n) == [i \in 1..n |-> Metric(d, ok)]
RunsOfRecords ==
  {Run(d, ok, n) : d \in ProbeDurations, ok \in BOOLEAN, n \in ProbeRuns}

CalculateProbe(history, size) ==
  /\ probe = NoProbe
  /\ Len(history) <= size
  /\ probe' = [history |-> history, size |-> size,
               timeout |-> CalculateAdaptiveTimeout(history, size)]
  /\ UNCHANGED <<historySize, metrics, currentTimeouts, appended, lastRecord,
                 tcall, prog>>
  /\ UNCHANGED nonTimeoutVars

ProbeNext ==
  \E a, b, c \in RunsOfRecords, size \in ProbeSizes : CalculateProbe(a \o b \o c, size)

(***************************************************************************)
(* Retrieval: one web search of searchMultipleQueries                      *)
(***************************************************************************)
nonDedupCacheVars ==
  <<execVars, execConfig, limitVars, streamVars, stageVars, genVars,
    extractVars, rerankVars, pipeVars, timeoutVars, batchVars>>

\* requestDeduplicator.ts lines 96-121: the key of deduplicateSearch
SearchKey(query) == IF query = "q1" THEN "k1" ELSE "k2"

\* copilotSearchAgent.ts lines 172-179 and 191-196: call c searches the query
\* RunQuery(c) through deduplicateSearch. A call that starts an operation runs
\* searchSingleQuery up to its await: it looks the query up in the document
\* cache and, finding nothing, sends the search
SearchSingleQueryStart(c) ==
  /\ DeduplicateEffect(c, SearchKey(RunQuery(c)))
  /\ IF callerOp'[c] = c
       THEN cache[RunQuery(c)] = NoEntry /\ GetEffect(RunQuery(c))
       ELSE UNCHANGED cacheVars
  /\ UNCHANGED nonDedupCacheVars

\* smartTimeout.ts lines 31-68: the timer of the call wins the race; the call
\* ends with the timeout error and the operation goes on
CallerTimeout(c) ==
  /\ callerOp[c] # 0
  /\ callerResult[c] = NoResult
  /\ InFlight(callerOp[c])
  /\ callerResult' = [callerResult EXCEPT
        ![c] = [kind |-> "timeout", from |-> callerOp[c]]]
  /\ UNCHANGED <<enabled, pendingRequests, dNow, opKey, opState, opFinally,
                 callerOp, callerJoined>>
  /\ UNCHANGED nonDedupVars

\* line 215
StoreDocs(query, docs) == SetEffect(query, docs, defaultTTL)

\* copilotSearchAgent.ts lines 198-217: the search answers; the documents are
\* stored in the document cache and the operation resolves with them
SearchSucceeds(o, docs) ==
  /\ SettleEffect(o, "resolved")
  /\ StoreDocs(RunQuery(o), docs)
  /\ UNCHANGED nonDedupCacheVars

\* copilotSearchAgent.ts lines 218-221: the search fails; the operation ends
\* with no document and nothing is stored (the outcome is named "rejected")
SearchFails(o) == SettleOp(o, "rejected")

RetrievalNext ==
  \/ \E c \in Callers : SearchSingleQueryStart(c)
  \/ \E c \in Callers : CallerTimeout(c)
  \/ \E o \in Callers, docs \in Data : SearchSucceeds(o, docs)
  \/ \E o \in Callers : SearchFails(o)
  \/ \E o \in Callers : StarterFinally(o)
  \/ \E c \in Callers : CallerReceive(c)
  \/ DedupCleanup
  \/ DedupTick

Init == DedupInit /\ ExecInit /\ LimitInit /\ CacheInit /\ StreamInit /\ StageInit
        /\ GenInit /\ ExtractInit /\ RerankInit /\ PipeInit /\ TimeoutInit /\ BatchInit

\* the global instances are constructed with enabled: true (lines 195-205)
InitEnabled == Init /\ enabled

\* every instance in the repository is constructed with maxSize > 1
\* (smartTimeout.ts lines 471-479); globalProcessor has retryAttempts 2
\* (parallelProcessor.ts line 230)
InitGlobals ==
  InitEnabled /\ maxSize = MaxMaxSize /\ retryAttempts = 2 /\ historySize = 1

\* each component is explored under every configuration of its own; the
\* configuration of the other components is the one of the global instances
InitDedup == Init /\ maxSize = MaxMaxSize /\ retryAttempts = 2 /\ historySize = 1
InitCache == InitEnabled /\ retryAttempts = 2 /\ historySize = 1
SpecDedup == InitDedup /\ [][DedupNext]_vars
SpecExec == InitGlobals /\ [][ExecNext]_vars
\* runTaskWithRetry under every retryAttempts the constructor accepts, with
\* calls of executeWithResults that hand over one task each
InitRetry == InitEnabled /\ maxSize = MaxMaxSize /\ historySize = 1
RetryNext ==
  \/ \E c \in CallIds, id \in TaskIds : Execute(c, "results", <<id>>)
  \/ \E j \in JobIds : UnitResolve(j)
  \/ \E j \in JobIds : UnitReject(j)
  \/ \E j \in JobIds : AttemptTimeout(j)
  \/ \E j \in JobIds, n \in 1..retryAttempts : StaleUnitSettles(j, n)
  \/ \E j \in JobIds : BackoffTick(j)
  \/ \E j \in JobIds : BackoffDone(j)
  \/ \E c \in CallIds : ReturnResults(c)
SpecRetry == InitRetry /\ [][RetryNext]_vars

\* executeWithLimit next to a call of execute / executeWithResults
LimitNext ==
  \/ \E limit \in Limits, ids \in TaskLists : ExecuteWithLimit(limit, ids)
  \/ \E i \in 1..Len(limitCall.pc) : LimitStart(i)
  \/ \E i \in 1..Len(limitCall.pc) : LimitSettle(i)
  \/ LimitReturn
  \/ \E mode \in {"execute", "results"}, id \in TaskIds : Execute(1, mode, <<id>>)
  \/ \E j \in JobIds : UnitResolve(j)
  \/ \E j \in JobIds : UnitReject(j)
  \/ \E j \in JobIds : AttemptTimeout(j)
  \/ \E j \in JobIds, n \in 1..retryAttempts : StaleUnitSettles(j, n)
  \/ \E j \in JobIds : BackoffTick(j)
  \/ \E j \in JobIds : BackoffDone(j)
  \/ \E c \in CallIds : ReturnResults(c)
  \/ \E c \in CallIds : ReturnExecute(c)
SpecLimit == InitGlobals /\ [][LimitNext]_vars

\* executeWithLimit on an executor it has to itself, with up to MaxLimitTasks
\* tasks of different ids
LimitIdLists == {SubSeq(BatchIds, 1, n) : n \in 0..MaxLimitTasks}
SemaphoreNext ==
  \/ \E limit \in Limits, ids \in LimitIdLists : ExecuteWithLimit(limit, ids)
  \/ \E i \in 1..Len(limitCall.pc) : LimitStart(i)
  \/ \E i \in 1..Len(limitCall.pc) : LimitSettle(i)
  \/ LimitReturn
  \/ \E j \in JobIds : UnitResolve(j)
  \/ \E j \in JobIds : UnitReject(j)
  \/ \E j \in JobIds : AttemptTimeout(j)
  \/ \E j \in JobIds, n \in 1..retryAttempts : StaleUnitSettles(j, n)
  \/ \E j \in JobIds : BackoffTick(j)
  \/ \E j \in JobIds : BackoffDone(j)
SpecSemaphore == InitGlobals /\ [][SemaphoreNext]_vars

\* timers fire and continuations of settled promises run; nothing is assumed
\* about the units of work, which may never settle
LimitFairness ==
  /\ \A j \in 1..MaxJobs :
        /\ WF_vars(j \in JobIds /\ AttemptTimeout(j))
        /\ WF_vars(j \in JobIds /\ BackoffTick(j))
        /\ WF_vars(j \in JobIds /\ BackoffDone(j))
  /\ \A i \in 1..MaxTasks :
        /\ WF_vars(i \in 1..Len(limitCall.pc) /\ LimitStart(i))
        /\ WF_vars(i \in 1..Len(limitCall.pc) /\ LimitSettle(i))
  /\ WF_vars(LimitReturn)
  /\ \A c \in CallIds : WF_vars(ReturnResults(c)) /\ WF_vars(ReturnExecute(c))
SpecLimitFair == SpecLimit /\ LimitFairness
SpecCache == InitCache /\ [][CacheNext]_vars
SpecStream == InitGlobals /\ [][StreamNext]_vars
SpecStage == InitGlobals /\ [][StageNext]_vars
SpecGen == InitGlobals /\ [][GenNext]_vars
SpecExtract == InitGlobals /\ [][ExtractNext]_vars
SpecRerank == InitGlobals /\ [][RerankNext]_vars
SpecSweep == InitDedup /\ [][SweepNext]_vars
SpecBatch == InitGlobals /\ [][BatchNext]_vars
SpecQueryDedup == InitGlobals /\ [][QueryDedupNext]_vars
SpecRetrieval == InitGlobals /\ [][RetrievalNext]_vars
SpecPipe == InitGlobals /\ [][PipeNext]_vars
\* the history of SmartTimeout, for every history size
InitHistory == InitEnabled /\ maxSize = MaxMaxSize /\ retryAttempts = 2
SpecHistory == InitHistory /\ [][HistoryNext]_vars
SpecProbe == InitGlobals /\ [][ProbeNext]_vars
SpecTimeoutCall == InitGlobals /\ [][TimeoutCallNext]_vars

(***************************************************************************)
(* Claims about the RequestDeduplicator (checked under SpecDedup)          *)
(***************************************************************************)
OpsInFlightFor(k) == {o \in Callers : InFlight(o) /\ opKey[o] = k}

\* C1: with deduplication enabled, for each key at most one operation started
\* through deduplicate is in flight, under any interleaving of calls,
\* settlements, sweeps and clear().
C1_AtMostOneInFlightPerKey ==
  enabled => \A k \in Keys : Cardinality(OpsInFlightFor(k)) <= 1

\* A deduplicate(c, k) step taken while the registration for k is fresh and its
\* operation unsettled.
JoinsInFlight(c, k) ==
  /\ enabled
  /\ pendingRequests[k] # NoReq
  /\ InFlight(pendingRequests[k].promise)
  /\ IsFresh(pendingRequests[k], dNow)
  /\ Deduplicate(c, k)

C2_JoinStep ==
  \A c \in Callers, k \in Keys :
    JoinsInFlight(c, k) =>
      /\ opState'[c] = "none"
      /\ opState' = opState
      /\ callerOp'[c] = pendingRequests[k].promise
      /\ pendingRequests'[k].promise = pendingRequests[k].promise
      /\ pendingRequests'[k].requestCount = pendingRequests[k].requestCount + 1

C2_SameOutcome ==
  \A c \in Callers :
    (callerJoined[c] = "inflight" /\ callerResult[c] # NoResult) =>
      /\ opState[c] = "none"
      /\ callerResult[c].kind = opState[callerOp[c]]
      /\ callerResult[c].from = callerOp[c]
      /\ \A d \in Callers :
           (callerOp[d] = callerOp[c] /\ callerResult[d] # NoResult)
             => callerResult[d] = callerResult[c]

\* C2: a deduplicate call made while a registration for the key exists whose
\* operation is unsettled and younger than maxPendingTime does not invoke its
\* own operation, increments the waiter count by one, and observes the same
\* value or error as every other caller holding that registration's promise,
\* the starting caller included.
C2_JoinSharesOperation == [][C2_JoinStep]_vars /\ []C2_SameOutcome

\* C2 witness: a call joined an in-flight operation, the waiter count shows it,
\* and both it and the starting call have observed the outcome.
C2_Witness ==
  \E c \in Callers :
    /\ callerJoined[c] = "inflight"
    /\ callerResult[c] # NoResult
    /\ callerResult[callerOp[c]] = callerResult[c]
    /\ callerOp[c] # c

(***************************************************************************)
(* Claims about the ParallelProcessor (checked under SpecExec)             *)
(***************************************************************************)
TasksRunning == {j \in JobIds : JobRunning(j)}

\* C3: the executor never runs more than maxConcurrency tasks simultaneously:
\* the number of tasks started and not yet settled is at most maxConcurrency.
C3_AtMostMaxConcurrencyRunning == Cardinality(TasksRunning) <= maxConcurrency

\* C10: executeWithResults returns one record per input task, in input order,
\* record i carrying the id of task i and task i's own result or own error.
C10_OneOwnRecordPerTask ==
  \A c \in CallIds :
    (calls[c].mode = "results" /\ calls[c].status = "returned") =>
      /\ Len(calls[c].records) = Len(calls[c].tasks)
      /\ \A i \in 1..Len(calls[c].tasks) :
           /\ calls[c].records[i].id = calls[c].tasks[i].id
           /\ calls[c].records[i].from = calls[c].tasks[i].work

(***************************************************************************)
(* Claims about the SearchCache (checked under SpecCache)                  *)
(***************************************************************************)
\* C4: get returns the stored value while now < expiresAt and absent once
\* now >= expiresAt, the instant now = expiresAt included, whatever the hits.
C4_GetStep ==
  \A k \in CKeys :
    (CacheGet(k) /\ cache[k] # NoEntry) =>
      IF cNow < cache[k].expiresAt
        THEN cacheLast'.ret = cache[k].data
        ELSE cacheLast'.ret = Null

C4_GetHonoursExpiry == [][C4_GetStep]_vars

\* C8: the number of stored entries never exceeds maxSize, after any sequence
\* of set, get, has, delete, clear and cleanup.
C8_SizeWithinMaxSize == Size(cache) <= maxSize

\* C8 witness: a set on a full cache evicted an entry and the cache is full again.
C8_Witness ==
  /\ cacheLast.op = "set"
  /\ cacheLast.evicted # {}
  /\ Size(cache) = maxSize

\* position of a key in the access history (0 when it was never accessed)
RecencyIndex(k) ==
  IF \E i \in 1..Len(recency) : recency[i] = k
    THEN CHOOSE i \in 1..Len(recency) : recency[i] = k
    ELSE 0

\* the stored entries that no other stored entry precedes in the access history
LeastRecentlyAccessed ==
  {k \in Present(cache) :
     \A x \in Present(cache) : RecencyIndex(k) <= RecencyIndex(x)}

C9_SetStep ==
  \A k \in CKeys, d \in Data, ttl \in TTLs :
    (CacheSet(k, d, ttl) /\ cache[k] = NoEntry /\ Size(cache) = maxSize) =>
      \E old \in LeastRecentlyAccessed :
        /\ LeastRecentlyAccessed = {old}
        /\ Present(cache') = (Present(cache) \ {old}) \cup {k}
        /\ \A x \in Present(cache) \ {old} : cache'[x] = cache[x]

C9_GetStep ==
  \A k \in CKeys :
    (CacheGet(k) /\ cacheLast'.op = "get" /\ cacheLast'.ret # Null) =>
      /\ accessOrder' # <<>>
      /\ accessOrder'[Len(accessOrder')] = k
      /\ OrderDelete(accessOrder', k) = OrderDelete(accessOrder, k)

\* C9: a set that inserts a new key into a cache holding maxSize entries evicts
\* exactly one entry, the one least recently accessed by get or set; a get that
\* returns a value makes its entry the most recently used one.
C9_EvictsLeastRecentlyUsed == [][C9_SetStep /\ C9_GetStep]_vars

\* C9 witness: with room for two entries, a set of a new key evicted exactly one
\* entry although the key inserted first had been read after the second one.
C9_Witness ==
  /\ maxSize >= 2
  /\ cacheLast.op = "set"
  /\ cacheLast.ret = "inserted"
  /\ Cardinality(cacheLast.evicted) = 1
  /\ Size(cache) = maxSize
  /\ \E x \in Present(cache) : cache[x].hits > 0 /\ x # cacheLast.key

(***************************************************************************)
(* Claims about searchAndAnswer / handleStream (checked under SpecStream)  *)
(***************************************************************************)
IsTerminal(e) == e.type \in {"end", "error"}
Terminals(r) == {i \in 1..Len(events[r]) : IsTerminal(events[r][i])}
Finished(r) == runPc[r] \in {"ended", "failed", "rejected"}

C7_NoPartialAnswerOnError ==
  \A r \in Runs :
    runPc[r] \in {"failed", "rejected"} =>
      \A i \in 1..Len(events[r]) : events[r][i].type # "response"

(***************************************************************************)
(* Claims about the retrieval stage (checked under SpecStage)              *)
(***************************************************************************)
\* C5: every retrieval task of a run yields only documents produced for that
\* run's own sub-query, never the result of another run's task.
C5_RunSeesOnlyOwnDocuments ==
  \A r \in Runs :
    runStage[r] = "retrieved" =>
      \A n \in 1..Len(searchDocs[r]) :
        searchDocs[r][n].query = subQueries[r][searchDocs[r][n].slot]

(***************************************************************************)
(* C11: runTaskWithRetry attempts the unit of work at most retryAttempts    *)
(* times; attempt k+1 starts only after attempt k failed (by error or by    *)
(* timeout) and a delay of retryDelay * k has passed; a successful attempt  *)
(* ends the task with no further attempt; the task is reported failed only  *)
(* after attempt retryAttempts failed, with the error of that attempt.      *)
(***************************************************************************)
C11_AttemptsBounded ==
  \A j \in JobIds : jobs[j].attempt \in 1..retryAttempts

C11_RetryStep ==
  \A j \in JobIds :
    /\ jobs'[j].attempt # jobs[j].attempt =>
          /\ jobs'[j].attempt = jobs[j].attempt + 1
          /\ jobs[j].phase = "backoff"
          /\ jobs[j].error \in {"error", "timeout"}
          /\ jobs[j].waited = retryDelay * jobs[j].attempt
    /\ jobs[j].phase = "resolved" =>
          /\ jobs'[j].phase = "resolved"
          /\ jobs'[j].attempt = jobs[j].attempt
    /\ (jobs[j].phase # "rejected" /\ jobs'[j].phase = "rejected") =>
          /\ jobs[j].phase = "running"
          /\ jobs[j].attempt = retryAttempts
          /\ jobs'[j].error = IF jobs[j].attempt \in jobs'[j].units
                                THEN "timeout" ELSE "error"

C11_RetryWithLinearBackoff == []C11_AttemptsBounded /\ [][C11_RetryStep]_vars

\* a task reported failed after three attempts, the last one timed out
C11_Witness ==
  \E j \in JobIds :
    /\ retryAttempts > 2
    /\ jobs[j].phase = "rejected"
    /\ jobs[j].attempt = retryAttempts
    /\ jobs[j].error = "timeout"
    /\ jobs[j].waited = retryDelay * (retryAttempts - 1)

(***************************************************************************)
(* C12: every call of execute, executeWithResults and executeWithLimit, for *)
(* any limit and any task list, eventually returns or raises, also when     *)
(* units of work never settle (executeBatched is a sequence of execute      *)
(* calls, lines 121-123).                                                   *)
(***************************************************************************)
C12_EveryCallReturns ==
  /\ \A c \in CallIds :
        (calls[c].status = "pending") ~> (calls[c].status \in {"returned", "raised"})
  /\ (limitCall.status = "pending") ~> (limitCall.status \in {"returned", "raised"})

(***************************************************************************)
(* C13: once an operation started through deduplicate has settled, by       *)
(* success or by failure, and the starting call has resumed from its await  *)
(* (lines 75-80), the pending table holds no registration for it; so when   *)
(* no started operation is in flight or about to resume, the table is empty.*)
(***************************************************************************)
Registered(o) == \E k \in Keys : pendingRequests[k].promise = o

\* the settlement of o has been delivered to the call that started it
SettlementDelivered(o) ==
  /\ opState[o] \in {"resolved", "rejected"}
  /\ enabled => opFinally[o]

C13_NoRegistrationAfterSettle ==
  /\ \A o \in Callers : SettlementDelivered(o) => ~Registered(o)
  /\ (\A o \in Callers : opState[o] # "none" => SettlementDelivered(o))
        => \A k \in Keys : pendingRequests[k] = NoReq

\* one operation that succeeded and one that failed, both registered when started
C13_Witness ==
  /\ enabled
  /\ \E o1, o2 \in Callers :
        /\ opState[o1] = "resolved" /\ opFinally[o1]
        /\ opState[o2] = "rejected" /\ opFinally[o2]
  /\ \A o \in Callers : opState[o] # "none" => SettlementDelivered(o)

(***************************************************************************)
(* C14: when a run emits end after a non-empty answer, the full answer is   *)
(* in the answer cache under the run's (query, mode) at that moment; a      *)
(* searchAndAnswer for a (query, mode) whose entry is present and unexpired *)
(* takes the cached path: it emits the cached answer followed by end and    *)
(* never builds or runs the chain (no search, language model or embedding). *)
(***************************************************************************)
\* the answer a streaming run has emitted so far: its non-empty response chunks
RECURSIVE Concat(_, _)
Concat(evs, i) ==
  IF i > Len(evs) THEN <<>>
  ELSE (IF evs[i].type = "response" THEN evs[i].data ELSE <<>>) \o Concat(evs, i + 1)

EmittedAnswer(r) == Concat(events[r], 1)

C14_Step ==
  \A r \in Runs :
    \* end after a streamed answer: the answer is cached already
    /\ (runPc[r] = "streaming" /\ runPc'[r] = "ended" /\ EmittedAnswer(r) # <<>>) =>
          /\ cache'[runReq[r]] # NoEntry
          /\ cache'[runReq[r]].data = EmittedAnswer(r)
    \* a call that finds an unexpired entry is served from it
    /\ (runPc[r] = "idle" /\ runPc'[r] # "idle"
          /\ cache[runReq'[r]] # NoEntry
          /\ cNow < cache[runReq'[r]].expiresAt) =>
          /\ runPc'[r] = "cached"
          /\ cachedResult'[r] = cache[runReq'[r]].data
          /\ events'[r] = <<>>
    \* the cached path emits the cached answer, then end, and nothing else
    /\ runPc[r] = "cached" =>
          \/ runPc'[r] = "cached" /\ events'[r] = <<>>
          \/ /\ runPc'[r] = "ended"
             /\ events'[r] = <<Response(cachedResult[r]), EndEvent>>

C14_RepeatedQueryServedFromCache == [][C14_Step]_vars

\* a run streamed an answer and ended; a later run of the same (query, mode)
\* was served that answer from the cache
C14_Witness ==
  \E r1, r2 \in Runs :
    /\ r1 # r2
    /\ runReq[r1] = runReq[r2]
    /\ runPc[r1] = "ended" /\ fullResponse[r1] # <<>>
    /\ runPc[r2] = "ended" /\ cachedResult[r2] # Null
    /\ cachedResult[r2] = fullResponse[r1]
    /\ Len(events[r2]) = 2

(***************************************************************************)
(* C15: failed retrieval tasks do not fail the stage: searchMultipleQueries *)
(* returns, and what it returns is the concatenation, in sub-query order,   *)
(* of the documents of the sub-queries whose task succeeded.                *)
(***************************************************************************)
\* the sub-queries of run r whose task is reported without error, in order
RECURSIVE SucceededQueries(_, _)
SucceededQueries(r, i) ==
  IF i > Len(subQueries[r]) THEN <<>>
  ELSE (IF calls[r].records[i].ok THEN <<subQueries[r][i]>> ELSE <<>>)
         \o SucceededQueries(r, i + 1)

C15_FailedTasksExcluded ==
  \A r \in Runs :
    (/\ runStage[r] = "retrieved"
     /\ \E i \in 1..Len(subQueries[r]) : ~calls[r].records[i].ok
     /\ \E i \in 1..Len(subQueries[r]) : calls[r].records[i].ok) =>
      [n \in 1..Len(searchDocs[r]) |-> searchDocs[r][n].query] = SucceededQueries(r, 1)

(***************************************************************************)
(* C16: generateMultipleQueries always yields at least one sub-query: when  *)
(* the response holds no delimited list, or a delimited list that is empty  *)
(* or only blank lines, the result is the original query alone.             *)
(***************************************************************************)
IsBlankLine(l) == \A i \in 1..Len(l) : l[i] = Space
NoUsableQuery == ~gen.matched \/ \A i \in 1..Len(gen.lines) : IsBlankLine(gen.lines[i])

C16_FallbackToOriginalQuery ==
  gen.pc = "done" =>
    /\ Len(gen.result) >= 1
    /\ NoUsableQuery => gen.result = <<UserQuery>>

ExtractionFailed(url) ==
  \E i \in 1..Len(calls[ExtractCall].records) :
    /\ UrlGroups(extIn)[i] = url
    /\ ~calls[ExtractCall].records[i].ok

C17_ExtractionFailureKeepsDocument ==
  (extPc = "done" /\ extConfig) =>
    \A i \in 1..Len(extIn) :
      ExtractionFailed(extIn[i].url) =>
        \E n \in 1..Len(extOut) : extOut[n] = extIn[i]

(***************************************************************************)
(* C18: when embedding succeeds, the result is the deduplicated documents   *)
(* whose similarity is not below the threshold (equal is kept), in order    *)
(* of descending similarity, cut to the highest ones up to the cap.         *)
(***************************************************************************)
SimOf(doc) == rr.sim[doc.content]
Deduplicated == {rr.embedded[i] : i \in 1..Len(rr.embedded)}
NotBelowThreshold == {d \in Deduplicated : SimOf(d) >= rerankThreshold}
ResultDocs == {rr.result[n] : n \in 1..Len(rr.result)}

C18_RerankKeepsThresholdAndOrder ==
  (rr.pc = "done" /\ rr.embedOk) =>
    /\ ResultDocs \subseteq NotBelowThreshold
    /\ Len(rr.result) = Cardinality(ResultDocs)
    /\ Len(rr.result) = IF Cardinality(NotBelowThreshold) < maxReranked
                          THEN Cardinality(NotBelowThreshold) ELSE maxReranked
    /\ \A n \in 1..(Len(rr.result) - 1) :
          SimOf(rr.result[n]) >= SimOf(rr.result[n + 1])
    /\ \A d \in NotBelowThreshold \ ResultDocs :
          \A n \in 1..Len(rr.result) : SimOf(rr.result[n]) >= SimOf(d)

(***************************************************************************)
(* C19: the documents handed to the embedding model and the documents       *)
(* returned, on the ranked path and on the fallback path, never hold two    *)
(* documents with the same URL, and the document kept for a URL is its      *)
(* first occurrence in the input.                                           *)
(***************************************************************************)
NoTwoWithSameUrl(seq) ==
  \A i, j \in 1..Len(seq) : seq[i].url = seq[j].url => i = j
FirstWithUrl(url) ==
  rr.docs[CHOOSE i \in 1..Len(rr.docs) :
            /\ rr.docs[i].url = url
            /\ \A j \in 1..(i - 1) : rr.docs[j].url # url]

C19_DeduplicatedByUrl ==
  rr.pc = "done" =>
    /\ NoTwoWithSameUrl(rr.embedded)
    /\ NoTwoWithSameUrl(rr.result)
    /\ \A n \in 1..Len(rr.embedded) :
          rr.embedded[n] = FirstWithUrl(rr.embedded[n].url)
    /\ \A n \in 1..Len(rr.result) : rr.result[n] = FirstWithUrl(rr.result[n].url)

\* the same URL came twice with different snippets and the ranked result holds
\* it once
C19_Witness ==
  /\ rr.pc = "done"
  /\ rr.embedOk
  /\ \E i, j \in 1..Len(rr.docs) :
        /\ i < j
        /\ rr.docs[i].url = rr.docs[j].url
        /\ rr.docs[i].content # rr.docs[j].content
        /\ \E n \in 1..Len(rr.result) : rr.result[n] = rr.docs[i]

(***************************************************************************)
(* C21: within one run the stages execute strictly in the order            *)
(* QueryGeneration, ParallelRetrieval, ContentExtraction (when enabled),   *)
(* Reranking, Synthesis: the stages entered so far are a prefix of that    *)
(* order (so none is entered twice and none after a later one), and a      *)
(* stage that follows an executor stage has begun only when every task of  *)
(* that stage has its result-or-error record.                              *)
(***************************************************************************)
StageIndex(name) == CHOOSE i \in 1..Len(StageNames) : StageNames[i] = name

\* the order of the stages of a run with or without content extraction
StageOrder(enable) ==
  IF enable THEN StageNames
  ELSE SelectSeq(StageNames, LAMBDA n : n # "ContentExtraction")

Entered(name) == \E i \in 1..Len(pipe.log) : pipe.log[i] = name

\* every task handed to the executor by call c has settled and has its record
AllRecorded(c) ==
  /\ \A i \in 1..Len(calls[c].slots) : JobSettled(calls[c].slots[i])
  /\ Len(calls[c].records) = Len(calls[c].tasks)

C21_StagesInOrder ==
  /\ Len(pipe.log) <= Len(StageOrder(pipe.enable))
  /\ pipe.log = SubSeq(StageOrder(pipe.enable), 1, Len(pipe.log))
  /\ \A i, j \in 1..Len(pipe.log) :
       i < j => StageIndex(pipe.log[i]) < StageIndex(pipe.log[j])
  /\ (Entered("ContentExtraction") \/ Entered("Reranking")) => AllRecorded(RetrievalCall)
  /\ (pipe.enable /\ Entered("Reranking")) => AllRecorded(ExtractionCall)

\* a finished run that went through all five stages, with a retrieval task
\* and an extraction task that failed after a retry
C21_Witness ==
  /\ pipe.pc = "done"
  /\ pipe.log = StageNames
  /\ Len(calls[RetrievalCall].tasks) = 1
  /\ Len(calls[ExtractionCall].tasks) = 1
  /\ ~calls[ExtractionCall].records[1].ok
  /\ jobs[calls[ExtractionCall].slots[1]].attempt > 1

(***************************************************************************)
(* C23: the settlement of an operation removes only its own registration:  *)
(* when the finally block of the call that started operation o runs, every *)
(* registration that holds the promise of another operation is left in the *)
(* table.                                                                  *)
(***************************************************************************)
C23_Step ==
  \A o \in Callers :
    (~opFinally[o] /\ opFinally'[o]) =>
      \A k \in Keys :
        (pendingRequests[k] # NoReq /\ pendingRequests[k].promise # o)
          => pendingRequests'[k] = pendingRequests[k]

C23_SettlementRemovesOwnOnly == [][C23_Step]_vars

(***************************************************************************)
(* C24: SearchCache.set terminates for every cache state and every         *)
(* maxSize >= 1: no call of set is caught in its eviction loop.            *)
(***************************************************************************)
C24_SetTerminates == ~cacheHung

(***************************************************************************)
(* C25: a set on a key that is present replaces that entry only: the keys  *)
(* stored are the same before and after, and every other entry is          *)
(* untouched, also when the cache holds maxSize entries.                   *)
(***************************************************************************)
C25_Step ==
  \A k \in CKeys, d \in Data, ttl \in TTLs :
    (CacheSet(k, d, ttl) /\ cache[k] # NoEntry /\ ~cacheHung') =>
      /\ Present(cache') = Present(cache)
      /\ \A x \in CKeys \ {k} : cache'[x] = cache[x]

C25_OverwriteReplacesOnlyThatEntry == [][C25_Step]_vars

(***************************************************************************)
(* C27: the cached timeout of a class is recomputed on every 10th record   *)
(* appended for that class and on no other record, whatever the history    *)
(* size and also after the history has reached its capacity.               *)
(***************************************************************************)
C27_Step ==
  \A t \in RequestTypes :
    appended'[t] = appended[t] + 1 =>
      IF appended'[t] % recomputeEvery = 0
        THEN /\ lastRecord'.recomputed
             /\ currentTimeouts'[t] = CalculateAdaptiveTimeout(metrics'[t], historySize)
        ELSE /\ ~lastRecord'.recomputed
             /\ currentTimeouts'[t] = currentTimeouts[t]

C27_RecomputedOnEveryTenthRecord == [][C27_Step]_vars

(***************************************************************************)
(* C29: the history of a class never holds more than historySize records;  *)
(* an append at capacity drops the oldest record, and the records kept are *)
(* the most recent ones in their order of arrival.                         *)
(***************************************************************************)
C29_Step ==
  \A t \in RequestTypes, m \in Samples :
    RecordMetrics(t, m.duration, m.success) =>
      /\ metrics'[t][Len(metrics'[t])] = m
      /\ IF Len(metrics[t]) < historySize
           THEN metrics'[t] = Append(metrics[t], m)
           ELSE metrics'[t] = Append(Tail(metrics[t]), m)
      /\ \A u \in RequestTypes \ {t} : metrics'[u] = metrics[u]

C29_HistoryBounded ==
  /\ [](\A t \in RequestTypes : Len(metrics[t]) <= historySize)
  /\ [][C29_Step]_vars

\* a history at capacity whose oldest record was dropped: a failure was
\* recorded first and the history holds successes only
C29_Witness ==
  /\ historySize = 10
  /\ appended["search-web"] > historySize
  /\ Len(metrics["search-web"]) = historySize
  /\ \A i \in 1..historySize : metrics["search-web"][i].success
  /\ lastRecord.type = "search-web"

(***************************************************************************)
(* C22: after successful calls of a class with increasing or stable        *)
(* latency, the timeout computed for the class is at least the 95th        *)
(* percentile of the observed latencies plus the minimum buffer, and lies  *)
(* within [minTimeout, maxTimeout].                                        *)
(***************************************************************************)
\* the 95th percentile of the durations of a history (nearest rank): the least
\* duration that at least 95% of the records do not exceed
Percentile95(history) ==
  LET n == Len(history)
      AtMost(d) == Cardinality({i \in 1..n : history[i].duration <= d})
      Enough == {i \in 1..n : AtMost(history[i].duration) * 100 >= 95 * n}
  IN history[CHOOSE i \in Enough :
               \A j \in Enough : history[i].duration <= history[j].duration].duration

StableOrIncreasing(history) ==
  /\ history # <<>>
  /\ \A i \in 1..Len(history) : history[i].success
  /\ \A i \in 1..(Len(history) - 1) : history[i].duration <= history[i + 1].duration

C22_TimeoutCoversObservedLatency ==
  \A t \in RequestTypes :
    StableOrIncreasing(metrics[t]) =>
      /\ TimeoutForType(t) >= Percentile95(metrics[t]) + minBuffer
      /\ TimeoutForType(t) >= minTimeout
      /\ TimeoutForType(t) <= maxTimeout

(***************************************************************************)
(* C28: calculateAdaptiveTimeout returns baseTimeout when the class has no *)
(* successful record, and otherwise ceil(p95 + max(avg / 2, 2000)) clamped *)
(* to [minTimeout, maxTimeout], with p95 and avg taken over the most       *)
(* recent (at most 20) successful durations; failed records have no        *)
(* influence.                                                              *)
(***************************************************************************)
SuccessesOf(history) == SelectSeq(history, LAMBDA m : m.success)

\* the least whole number that is at least p95 + max(avg / 2, 2000) over recent
CeilOfP95PlusBuffer(recent) ==
  LET n == Len(recent)
      total == Sum([i \in 1..n |-> recent[i].duration])
      p95 == Percentile95(recent)
      Covers(v) == /\ 2 * n * (v - p95) >= total
                   /\ v - p95 >= minBuffer
  IN CHOOSE v \in p95..(p95 + total + minBuffer) :
       Covers(v) /\ (v = p95 \/ ~Covers(v - 1))

C28_Expected(history) ==
  LET succ == SuccessesOf(history)
      recent == SubSeq(succ, Max(1, Len(succ) - recentWindow + 1), Len(succ))
      wanted == CeilOfP95PlusBuffer(recent)
  IN IF succ = <<>> THEN baseTimeout
     ELSE IF wanted < minTimeout THEN minTimeout
     ELSE IF wanted > maxTimeout THEN maxTimeout
     ELSE wanted

C28_AdaptiveTimeoutFormula ==
  probe # NoProbe =>
    /\ probe.timeout = C28_Expected(probe.history)
    /\ probe.timeout = CalculateAdaptiveTimeout(SuccessesOf(probe.history), probe.size)

(***************************************************************************)
(* C26: executeWithTimeout raises TimeoutError if and only if the timer    *)
(* fired before the operation settled: a failure raised by the operation   *)
(* itself before the timer fires is re-raised as it is, never as a         *)
(* TimeoutError, whatever the elapsed time.                                *)
(***************************************************************************)
C26_TimeoutErrorOnlyOnTimeout ==
  tcall.pc = "raised" =>
    /\ tcall.cause = "timer" => tcall.thrown = "TimeoutError"
    /\ tcall.cause = "rejected" => tcall.thrown = "OperationError"

(***************************************************************************)
(* C30: executeWithProgressiveTimeout runs the operation against the given *)
(* timeouts in order, at most once per timeout; it returns at the first    *)
(* success, re-raises a failure of the operation at once without trying a  *)
(* further timeout, and raises TimeoutError only after the operation timed *)
(* out against every timeout.                                              *)
(***************************************************************************)
C30_ProgressiveTimeouts ==
  LET log == prog.log
      n == Len(log)
  IN /\ n <= Len(prog.timeouts)
     /\ \A i \in 1..n : log[i].timeout = prog.timeouts[i]
     \* only a timeout lets the loop go on to the next timeout
     /\ \A i \in 1..n : (i < n \/ prog.pc = "loop") => log[i].cause = "timer"
     /\ (prog.pc = "returned") => (n >= 1 /\ log[n].cause = "resolved")
     /\ (prog.pc = "raised" /\ prog.thrown = "TimeoutError") =>
          /\ n = Len(prog.timeouts)
          /\ \A i \in 1..n : log[i].cause = "timer"
     /\ (prog.pc = "raised" /\ prog.timeouts # <<>> /\ log[n].cause = "rejected") =>
          prog.thrown = "OperationError"

(***************************************************************************)
(* C31: a sweep removes every registration older than maxPendingTime and   *)
(* no younger one; with the sweep on its timer a registration, also one    *)
(* whose operation never settles, is in the table for at most              *)
(* maxPendingTime plus one cleanup interval.                               *)
(***************************************************************************)
AgeOf(k) == dNow - pendingRequests[k].timestamp

C31_SweepStep ==
  TimedCleanup =>
    \A k \in Keys :
      pendingRequests'[k] =
        IF pendingRequests[k] # NoReq /\ AgeOf(k) > maxPendingTime
          THEN NoReq ELSE pendingRequests[k]

C31_AgeBounded ==
  \A k \in Keys :
    pendingRequests[k] # NoReq => AgeOf(k) <= maxPendingTime + cleanupInterval

C31_SweepBoundsPendingAge == []C31_AgeBounded /\ [][C31_SweepStep]_vars

\* the only operation ever started is still pending and its registration has
\* been swept
C31_Witness ==
  /\ enabled
  /\ \E o \in Callers :
       /\ opState[o] = "pending"
       /\ ~Registered(o)
       /\ \A p \in Callers \ {o} : opState[p] = "none"
  /\ \A k \in Keys : pendingRequests[k] = NoReq

(***************************************************************************)
(* C32: executeBatched runs the tasks in groups of batchSize (default      *)
(* maxConcurrency) taken in descending priority order: no task of a later  *)
(* group starts before every task of the earlier groups has settled, no    *)
(* task starts before a task of strictly higher priority, and at most      *)
(* batchSize tasks are running at any time.                                *)
(***************************************************************************)
\* the place of task i of the list ts in descending priority order (tasks of
\* equal priority in the order of the list), and the group this place falls in
PlaceOf(ts, i) ==
  1 + Cardinality({k \in 1..Len(ts) : ts[k].priority > ts[i].priority})
    + Cardinality({k \in 1..(i - 1) : ts[k].priority = ts[i].priority})
GroupOf(ts, i, size) == (PlaceOf(ts, i) - 1) \div size
\* the task of the list that job j runs
TaskOfJob(j) == jobs[j].work[2]

C32_BatchedInPriorityGroups ==
  batch.pc # "idle" =>
    /\ \A j1, j2 \in JobIds :
         /\ j1 < j2 => batch.tasks[TaskOfJob(j1)].priority
                          >= batch.tasks[TaskOfJob(j2)].priority
         /\ GroupOf(batch.tasks, TaskOfJob(j1), batch.size)
               < GroupOf(batch.tasks, TaskOfJob(j2), batch.size) => JobSettled(j1)
    /\ Cardinality({j \in JobIds : JobRunning(j)}) <= batch.size
    /\ batch.size >= 1

\* three tasks handed over in ascending priority ran in two groups of at most
\* two and the call returned
C32_Witness ==
  /\ batch.pc = "returned"
  /\ batch.size = 2
  /\ Len(batch.tasks) = 3
  /\ batch.tasks[1].priority < batch.tasks[2].priority
  /\ batch.tasks[2].priority < batch.tasks[3].priority
  /\ Len(jobs) = 3
  /\ Len(batch.results) = 3

(***************************************************************************)
(* C33: in executeWithLimit the number of tasks that hold a permit         *)
(* (acquired and not yet released) never exceeds limit, every permit is    *)
(* released when its task settles by success or failure, and the tasks     *)
(* blocked in acquire are admitted in the order in which they started      *)
(* waiting.                                                                *)
(***************************************************************************)
LimitTasks == 1..Len(limitCall.pc)
Holders == {i \in LimitTasks : limitCall.pc[i] \in {"acquired", "running"}}

\* acquire is called for the tasks in the order of the list, so a task that
\* waits started waiting before every later task of the list
C33_PermitsAndFifo ==
  limitCall.status # "idle" =>
    /\ Cardinality(Holders) <= limitCall.limit
    /\ semaphore.permits + Cardinality(Holders) = limitCall.limit
    /\ \A i \in LimitTasks :
         limitCall.pc[i] \in {"done", "failed"} => JobSettled(limitCall.slots[i])
    /\ \A i, k \in LimitTasks :
         (i < k /\ limitCall.pc[i] = "waiting") => limitCall.pc[k] = "waiting"

\* with one permit and three tasks, the first task failed, the second was
\* admitted from the queue and is done, the third holds the permit
C33_Witness ==
  /\ limitCall.limit = 1
  /\ Len(limitCall.pc) = 3
  /\ limitCall.pc[1] = "failed"
  /\ limitCall.pc[2] = "done"
  /\ limitCall.pc[3] = "running"

(***************************************************************************)
(* C34: the language-model call of QueryGeneration is deduplicated by a    *)
(* key built from the query and the chat history: a run is only ever       *)
(* handed the response of a call made with its own query and its own chat  *)
(* history.                                                                *)
(***************************************************************************)
C34_OwnHistory ==
  \A c \in Callers :
    callerOp[c] # 0 =>
      /\ RunQuery(callerOp[c]) = RunQuery(c)
      /\ RunHistory(callerOp[c]) = RunHistory(c)

(***************************************************************************)
(* C35: a retrieval operation that loses the race against its timeout is   *)
(* not cancelled: while it is in flight it stays registered in the         *)
(* deduplicator, so a later call with the same key joins it, and when it   *)
(* succeeds its documents are stored in the document cache.                *)
(***************************************************************************)
LostRace(o) ==
  \E c \in Callers : callerResult[c] = [kind |-> "timeout", from |-> o]

C35_StaysRegistered ==
  \A o \in Callers :
    (LostRace(o) /\ InFlight(o)) =>
      pendingRequests[SearchKey(RunQuery(o))].promise = o

C35_Step ==
  /\ \A c, o \in Callers :
       (/\ LostRace(o) /\ InFlight(o)
        /\ RunQuery(c) = RunQuery(o)
        /\ callerOp[c] = 0 /\ callerOp'[c] # 0) => callerOp'[c] = o
  /\ \A o \in Callers :
       (LostRace(o) /\ InFlight(o) /\ opState'[o] = "resolved") =>
         /\ cache'[RunQuery(o)] # NoEntry
         /\ cacheLast'.op = "set"
         /\ cacheLast'.key = RunQuery(o)

C35_TimedOutSearchStaysShared == []C35_StaysRegistered /\ [][C35_Step]_vars

\* the part of C35 about the document cache
C35_DocsStored ==
  [][\A o \in Callers :
       (LostRace(o) /\ InFlight(o) /\ opState'[o] = "resolved") =>
         /\ cache'[RunQuery(o)] # NoEntry
         /\ cacheLast'.op = "set"
         /\ cacheLast'.key = RunQuery(o)]_vars

(***************************************************************************)
(* C36: cleanup() removes exactly the entries that are expired when it is  *)
(* called (now > expiresAt), returns the number of entries it removed, and *)
(* leaves every other entry as it was: same value, same expiry, same hit   *)
(* count, same position relative to the other survivors in accessOrder.    *)
(***************************************************************************)
\* the steps of cleanup: the last completed operation is cleanup, the clock
\* did not move and no call of set got stuck
CleanupStep ==
  cacheLast'.op = "cleanup" /\ cNow' = cNow /\ cacheHung' = cacheHung

Unexpired(c, now) == {k \in Present(c) : now <= c[k].expiresAt}

C36_Step ==
  CleanupStep =>
    /\ Present(cache') = Unexpired(cache, cNow)
    /\ \A k \in Unexpired(cache, cNow) : cache'[k] = cache[k]
    /\ cacheLast'.ret = Cardinality(Present(cache) \ Unexpired(cache, cNow))
    /\ accessOrder' =
         SelectSeq(accessOrder, LAMBDA x : x \in Unexpired(cache, cNow))

C37_OneUnitAtATime ==
  \A j \in JobIds : Cardinality(jobs[j].units) <= 1

\* the part of C37 about attempts that ended because the unit of work threw
C37_RetryAfterRejection ==
  [][\A j \in JobIds :
       (/\ jobs[j].phase = "backoff" /\ jobs[j].error = "error"
        /\ jobs'[j].phase = "running") => jobs[j].attempt \notin jobs[j].units]_vars

(***************************************************************************)
(* C38: the answer cache only holds complete answers: the value stored for *)
(* a (query, mode) key is the concatenation of all the response chunks of  *)
(* one single run for that key that ended with `end`; a run that ends in   *)
(* `error` writes nothing to the cache.                                    *)
(***************************************************************************)
StreamedToEnd(r) == runPc[r] = "ended" /\ cachedResult[r] = Null

C38_CompleteAnswer ==
  \A k \in Present(cache) :
    \E r \in Runs :
      /\ StreamedToEnd(r)
      /\ runReq[r] = k
      /\ cache[k].data = EmittedAnswer(r)

C38_Step ==
  \A r \in Runs :
    (runPc'[r] # runPc[r] /\ runPc'[r] \in {"failed", "rejected"}) =>
      /\ Present(cache') \subseteq Present(cache)
      /\ \A k \in Present(cache') : cache'[k] = cache[k]

C38_CacheHoldsCompleteAnswers == []C38_CompleteAnswer /\ [][C38_Step]_vars

\* two runs for one key: one streamed two chunks to the end and its answer is
\* cached, the other failed after its first chunk
C38_Witness ==
  \E r, f \in Runs :
    /\ StreamedToEnd(r)
    /\ cache[runReq[r]].data = <<"x", "x">>
    /\ runPc[f] = "failed"
    /\ runReq[f] = runReq[r]
    /\ fullResponse[f] = <<"x">>

(***************************************************************************)
(* C39: every event of a run, the `error` of a failure to build or start   *)
(* the pipeline included, is emitted only after searchAndAnswer has        *)
(* returned the emitter to its caller, and searchAndAnswer never raises.   *)
(***************************************************************************)
Returned(r) == runPc[r] \in {"cached", "streaming", "ended", "failed"}

C39_NeverRaises == \A r \in Runs : runPc[r] # "rejected"

C39_Step == \A r \in Runs : events'[r] # events[r] => Returned(r)

C39_EventsAfterReturn == []C39_NeverRaises /\ [][C39_Step]_vars

\* the part of C39 about the cached answer and the streamed events
C39_DeferredEventsAfterReturn ==
  [][\A r \in Runs :
       (events'[r] # events[r] /\ runPc'[r] # "rejected") => Returned(r)]_vars

(***************************************************************************)
(* C40: after every completed operation of the cache (set, get, has,       *)
(* delete, clear, cleanup) the keys of accessOrder are exactly the keys of *)
(* the entry table.                                                        *)
(***************************************************************************)
OrderKeys == {accessOrder[i] : i \in 1..Len(accessOrder)}

C40_OrderMatchesEntries ==
  ~cacheHung =>
    /\ OrderKeys = Present(cache)
    /\ Len(accessOrder) = Size(cache)

\* a full cache after a set that evicted an entry
C40_Witness ==
  /\ ~cacheHung
  /\ cacheLast.op = "set"
  /\ cacheLast.evicted # {}
  /\ Size(cache) = 2
====
